---- MODULE Spec2Model ----
(***************************************************************************)
(* A model of AxiosRetryClient (src/src/axios-retry-client.ts, the 2.x     *)
(* class at lines 59-415): construction, the five verb methods and the     *)
(* shared _request pipeline, the retry interceptor that axiosRetry()       *)
(* installs on the client's axios instance, and the error handler.         *)
(*                                                                         *)
(* JavaScript objects are functions with a set of string keys as domain:   *)
(* a key that is absent from the object is absent from the DOMAIN.  The    *)
(* spread {...a, ...b} is Spread(a, b).  Text is a sequence of tokens, so  *)
(* that a template literal is a concatenation and "embeds" is a search.    *)
(***************************************************************************)
EXTENDS Integers, Sequences, FiniteSets, TLC

VARIABLES given, client, calls, subclass, evaluated, options

vars == <<given, client, calls, subclass, evaluated, options>>

(***************************************************************************)
(* Bounds of the model.                                                    *)
(***************************************************************************)
\* The largest `retries` value a caller passes (constructor or per call).
MaxRetries == 2
\* Math.random() is drawn from {0/RandomDen, ..., (RandomDen-1)/RandomDen}.
RandomDen == 2

\* The call slots: Spec uses SeqCalls (one call at a time, any number of
\* calls one after the other), SpecConc uses CallIds (calls in flight together).
CallIds == {1, 2}
SeqCalls == {1}

(***************************************************************************)
(* Objects.                                                                *)
(***************************************************************************)
Empty == [k \in {} |-> 0]

Has(o, k) == k \in DOMAIN o

\* {...a, ...b}
Spread(a, b) ==
  [k \in (DOMAIN a) \cup (DOMAIN b) |-> IF k \in DOMAIN b THEN b[k] ELSE a[k]]

\* `delete o[k]`
Delete(o, k) == [j \in (DOMAIN o) \ {k} |-> o[j]]

\* o with o[k] = v
Assign(o, k, v) == Spread(o, [j \in {k} |-> v])

\* The objects with at most the key k, its value from S.
Opt(k, S) == {Empty} \cup {[j \in {k} |-> v] : v \in S}

Join(A, B) == {Spread(a, b) : a \in A, b \in B}

\* o?.[k] || d for a number (0 and undefined are falsy)
OrNum(o, k, d) == IF Has(o, k) /\ o[k] # 0 THEN o[k] ELSE d

\* o?.[k] || d for a string ("" and undefined are falsy)
OrStr(o, k, d) == IF Has(o, k) /\ o[k] # "" THEN o[k] ELSE d

(***************************************************************************)
(* Types of the source.                                                    *)
(***************************************************************************)
RequestType == {"GET", "POST", "PUT", "PATCH", "DELETE"}

BackoffOptions == {"exponential", "linear", "none"}

\* A retryDelay function the caller wrote, such as () => 100 of the tests.
CustomDelay == [kind |-> "custom", delay |-> 100]

\* AxiosRetryClientRetryConfig objects with any subset of the keys retries,
\* backoff, delayFactor and retryDelay, the values from the sets given.
RetryConfigsOf(retries, backoffs, factors) ==
  Join(Join(Join(Opt("retries", retries), Opt("backoff", backoffs)),
            Opt("delayFactor", factors)),
       Opt("retryDelay", {CustomDelay}))

\* The retryConfig objects given to the constructor: every choice of retries
\* and backoff, and for the largest retries every choice of the other keys.
ClientRetryConfigs ==
  (RetryConfigsOf(0..MaxRetries, {"linear"}, {}) \ {Empty})
  \cup {rc \in RetryConfigsOf({MaxRetries}, {"linear"}, {200}) : Has(rc, "retries")}
  \cup {[delayFactor |-> 200], [retryDelay |-> CustomDelay]}

\* The retryConfig objects given with one call.
CallRetryConfigs == RetryConfigsOf(0..MaxRetries, {"none"}, {300})

\* AxiosRetryClientOptions objects given to the constructor: baseURL alone,
\* baseURL with a retryConfig, and a few with the other options set.
BaseOptions == [baseURL |-> "https://api.example.com"]

ClientOptions ==
  {BaseOptions}
  \cup {Spread(BaseOptions, [retryConfig |-> rc]) : rc \in ClientRetryConfigs}
  \cup {Spread(BaseOptions, [retryConfig |-> [retries |-> MaxRetries, backoff |-> "linear"],
                             axiosConfig |-> [timeout |-> 1000]]),
        Spread(BaseOptions, [retryConfig |-> [retries |-> 1], debug |-> TRUE,
                             debugLevel |-> "verbose", name |-> "CustomClient"]),
        Spread(BaseOptions, [debug |-> TRUE])}

\* The per-call config objects: none given (the default {}), transport
\* options alone, and a retryConfig override.
RequestConfigs ==
  {Empty, [params |-> "foo=bar"]} \cup {[retryConfig |-> rc] : rc \in CallRetryConfigs}

Urls == {"/test"}

\* The payload of post, put and patch; get and delete pass undefined.
Undefined == "undefined"
Payloads == {"payload"}

(***************************************************************************)
(* The transport: what one attempt can answer.                             *)
(***************************************************************************)
\* Response bodies of a failed request; a response may also carry no body.
ErrorBodies == {[message |-> "Not Found"], [message |-> ""], [errors |-> "Invalid input"]}

ErrorStatuses == {404, 500}

ErrorResponses ==
  {[status |-> 404, data |-> d] : d \in ErrorBodies}
  \cup {[status |-> 500, data |-> [message |-> "Internal Server Error"]]}
  \cup {[status |-> s] : s \in ErrorStatuses}

\* The outgoing request object (http.ClientRequest): its socket refers back
\* to it, so the object graph has a cycle.
ClientRequest == [type |-> "ClientRequest", socket |-> [_httpMessage |-> "ClientRequest"]]

\* The errors an attempt can end with, before axios attaches the request
\* config: a response outside 2xx, a network drop, a transport timeout, and
\* two failures before anything was sent (the second is a bare thrown value
\* with neither message nor config).
TransportErrors ==
  {[name |-> "AxiosError", message |-> "Request failed", code |-> "ERR_BAD_RESPONSE",
    request |-> ClientRequest, response |-> r, hasConfig |-> TRUE] : r \in ErrorResponses}
  \cup {[name |-> "AxiosError", message |-> "Network Error", code |-> "ERR_NETWORK",
         request |-> ClientRequest, hasConfig |-> TRUE],
        [name |-> "AxiosError", message |-> "timeout exceeded", code |-> "ECONNABORTED",
         request |-> ClientRequest, hasConfig |-> TRUE],
        [name |-> "AxiosError", message |-> "Unsupported protocol", code |-> "ERR_BAD_REQUEST",
         hasConfig |-> TRUE],
        [name |-> "Error", hasConfig |-> FALSE]}

SuccessResponses == {[status |-> 200, data |-> [success |-> TRUE]], [status |-> 204]}

\* How long the last attempt took, in ms, as handleRetry measures it.
LastRequestDurations == {0, 900}

(***************************************************************************)
(* Backoff: getRetryDelay and the two axios-retry delay functions it       *)
(* calls.  A delay function yields the set of delays it can return: the    *)
(* exponential one adds up to 20% of random jitter.                        *)
(***************************************************************************)
Max(a, b) == IF a >= b THEN a ELSE b

\* The Retry-After of the error's response in ms, 0 without one.
retryAfter(error) ==
  IF Has(error, "response") /\ Has(error.response, "retryAfter")
  THEN error.response.retryAfter ELSE 0

exponentialDelay(retryNumber, error, delayFactor) ==
  LET calculatedDelay == (2 ^ retryNumber) * delayFactor
      delay == Max(calculatedDelay, retryAfter(error))
  IN {delay + (delay * 2 * k) \div (10 * RandomDen) : k \in 0..(RandomDen - 1)}

\* linearDelay called without the error: no Retry-After is read.
linearDelayNoError(delayFactor, retryNumber, error) ==
  {retryNumber * delayFactor}

\* linearDelay with the jitter of exponentialDelay.
linearDelayJitter(delayFactor, retryNumber, error) ==
  LET delay == Max(retryNumber * delayFactor, retryAfter(error))
  IN {delay + (delay * 2 * k) \div (10 * RandomDen) : k \in 0..(RandomDen - 1)}

linearDelay(delayFactor, retryNumber, error) ==
  {Max(retryNumber * delayFactor, retryAfter(error))}

\* getRetryDelay whose last branch is the linear one.
getRetryDelayNoneLinear(retryCount, error, backoff, delayFactor) ==
  IF backoff = "exponential" THEN exponentialDelay(retryCount, error, delayFactor)
  ELSE linearDelay(delayFactor, retryCount, error)

getRetryDelay(retryCount, error, backoff, delayFactor) ==
  IF backoff = "exponential" THEN exponentialDelay(retryCount, error, delayFactor)
  ELSE IF backoff = "linear" THEN linearDelay(delayFactor, retryCount, error)
  ELSE {delayFactor}

(***************************************************************************)
(* The constructor.  A function value is a record naming the function and  *)
(* what its closure captured.                                              *)
(***************************************************************************)
\* defaultRetryConfig with the retries: 3 that the comment at line 54 of the
\* source announces.
defaultRetryConfigThree(backoff, delayFactor, name) ==
  [retries |-> 3,
   retryDelay |-> [kind |-> "getRetryDelay", backoff |-> backoff, delayFactor |-> delayFactor],
   onRetry |-> [kind |-> "logRetry", name |-> name],
   delayFactor |-> delayFactor,
   backoff |-> backoff]

\* defaultRetryConfig with a retryCondition that accepts every error.
defaultRetryConfigRetryAll(backoff, delayFactor, name) ==
  [retries |-> 0,
   retryDelay |-> [kind |-> "getRetryDelay", backoff |-> backoff, delayFactor |-> delayFactor],
   onRetry |-> [kind |-> "logRetry", name |-> name],
   retryCondition |-> "always",
   delayFactor |-> delayFactor,
   backoff |-> backoff]

defaultRetryConfig(backoff, delayFactor, name) ==
  [retries |-> 0,
   retryDelay |-> [kind |-> "getRetryDelay", backoff |-> backoff, delayFactor |-> delayFactor],
   onRetry |-> [kind |-> "logRetry", name |-> name],
   delayFactor |-> delayFactor,
   backoff |-> backoff]

\* The constructor whose retryDelay captures the default backoff and
\* delayFactor in place of the ones given.
constructorDefaultDelay(config) ==
  LET given0 == IF Has(config, "retryConfig") THEN config.retryConfig ELSE Empty
      backoff == OrStr(given0, "backoff", "exponential")
      delayFactor == OrNum(given0, "delayFactor", 500)
      name == OrStr(config, "name", "AxiosRetryClient")
      defaults == Spread(defaultRetryConfig("exponential", 500, name),
                         [backoff |-> backoff, delayFactor |-> delayFactor])
      retryConfig == IF Has(config, "retryConfig")
                     THEN Spread(defaults, config.retryConfig) ELSE defaults
      config2 == Spread([axiosConfig |-> Empty, retryConfig |-> retryConfig, debug |-> FALSE,
                         debugLevel |-> "normal", name |-> name],
                        Delete(config, "retryConfig"))
  IN [axiosConfig |-> config2.axiosConfig,
      baseURL |-> config2.baseURL,
      debug |-> config2.debug,
      debugLevel |-> config2.debugLevel,
      name |-> config2.name,
      retryConfig |-> config2.retryConfig,
      axios |-> [instance |-> "shared",
                 defaults |-> Spread(config2.axiosConfig, [baseURL |-> config2.baseURL]),
                 retryOptions |-> config2.retryConfig]]

constructor(config) ==
  LET given0 == IF Has(config, "retryConfig") THEN config.retryConfig ELSE Empty
      backoff == OrStr(given0, "backoff", "exponential")
      delayFactor == OrNum(given0, "delayFactor", 500)
      name == OrStr(config, "name", "AxiosRetryClient")
      defaults == defaultRetryConfig(backoff, delayFactor, name)
      retryConfig == IF Has(config, "retryConfig")
                     THEN Spread(defaults, config.retryConfig) ELSE defaults
      config2 == Spread([axiosConfig |-> Empty, retryConfig |-> retryConfig, debug |-> FALSE,
                         debugLevel |-> "normal", name |-> name],
                        Delete(config, "retryConfig"))
  IN [axiosConfig |-> config2.axiosConfig,
      baseURL |-> config2.baseURL,
      debug |-> config2.debug,
      debugLevel |-> config2.debugLevel,
      name |-> config2.name,
      retryConfig |-> config2.retryConfig,
      \* axios.create({...axiosConfig, baseURL}) and axiosRetry(client, retryConfig)
      axios |-> [instance |-> "shared",
                 defaults |-> Spread(config2.axiosConfig, [baseURL |-> config2.baseURL]),
                 retryOptions |-> config2.retryConfig]]

(***************************************************************************)
(* _request, first part: the per-call retryConfig is merged over the       *)
(* client's and stored under the key the retry interceptor reads.          *)
(***************************************************************************)
\* mergeRetryConfig with the two spreads in the other order: the client's
\* fields win over the call's.
mergeRetryConfigClientWins(this, config) ==
  IF Has(config, "retryConfig")
  THEN Assign(config, "axios-retry", Spread(config.retryConfig, this.retryConfig))
  ELSE config

\* mergeRetryConfig reading retries with ||, which takes 0 for unset.
mergeRetryConfigFalsy(this, config) ==
  IF Has(config, "retryConfig")
  THEN LET rc == config.retryConfig
           retryConfig ==
             IF (Has(rc, "backoff") /\ rc.backoff # "") \/ (Has(rc, "delayFactor") /\ rc.delayFactor # 0)
             THEN Spread(Spread(this.retryConfig, [retryDelay |-> [kind |-> "_request"]]), rc)
             ELSE Spread(this.retryConfig, rc)
       IN Assign(config, "axios-retry",
                 Assign(retryConfig, "retries", OrNum(rc, "retries", this.retryConfig.retries)))
  ELSE config

\* mergeRetryConfig with the derived retryDelay spread last: it replaces a
\* retryDelay of the override.
mergeRetryConfigDerivedLast(this, config) ==
  IF Has(config, "retryConfig")
  THEN LET rc == config.retryConfig
           retryConfig ==
             IF (Has(rc, "backoff") /\ rc.backoff # "") \/ (Has(rc, "delayFactor") /\ rc.delayFactor # 0)
             THEN Spread(Spread(this.retryConfig, rc), [retryDelay |-> [kind |-> "_request"]])
             ELSE Spread(this.retryConfig, rc)
       IN Assign(config, "axios-retry", retryConfig)
  ELSE config

mergeRetryConfig(this, config) ==
  IF Has(config, "retryConfig")
  THEN LET rc == config.retryConfig
           retryConfig ==
             IF (Has(rc, "backoff") /\ rc.backoff # "") \/ (Has(rc, "delayFactor") /\ rc.delayFactor # 0)
             THEN Spread(Spread(this.retryConfig, [retryDelay |-> [kind |-> "_request"]]), rc)
             ELSE Spread(this.retryConfig, rc)
       IN Assign(config, "axios-retry", retryConfig)
  ELSE config

\* requestRetryDelay reading the backoff and the delayFactor of the client
\* alone.
requestRetryDelayClient(retryCount, error, this, config) ==
  getRetryDelay(retryCount, error, this.retryConfig.backoff, this.retryConfig.delayFactor)

\* The arrow function of lines 152-158: it reads the variable `config` of
\* its call and this.retryConfig when the interceptor calls it.
requestRetryDelay(retryCount, error, this, config) ==
  LET rc == IF Has(config, "retryConfig") THEN config.retryConfig ELSE Empty
  IN getRetryDelay(retryCount, error,
                   OrStr(rc, "backoff", this.retryConfig.backoff),
                   OrNum(rc, "delayFactor", this.retryConfig.delayFactor))

\* Calling a retryDelay function value.
applyRetryDelay(fn, retryCount, error, this, config) ==
  CASE fn.kind = "getRetryDelay" -> getRetryDelay(retryCount, error, fn.backoff, fn.delayFactor)
    [] fn.kind = "_request" -> requestRetryDelay(retryCount, error, this, config)
    [] fn.kind = "custom" -> {fn.delay}
    [] OTHER -> {0}

(***************************************************************************)
(* The hooks.  `subclass` holds the methods an extending class overrides,  *)
(* each a function value; the base class defines the rest.                 *)
(***************************************************************************)
\* this.<name>: the override of the extending class, else the base method.
Method(sub, name) == IF Has(sub, name) THEN sub[name] ELSE [kind |-> "base"]

\* The base preRequestFilter.
preRequestFilter(requestType, url, data, config) == [data |-> data, config |-> config]

\* The payload an overriding filter puts in place of the caller's.
ModifiedPayloads == {"payload, modified: true", ""}

\* The retryConfig an overriding filter writes into the config.
FilterRetryConfig == [retries |-> MaxRetries, backoff |-> "linear", delayFactor |-> 300]

\* Filters an extending class may define: one that returns a payload of its
\* own and the config with a header added (as the test's CustomClient), one
\* that returns no payload (null), one that returns nothing at all, and one
\* that writes a retryConfig into the config.
FilterOverrides ==
  {[kind |-> "modify", data |-> d] : d \in ModifiedPayloads}
  \cup {[kind |-> "noData"], [kind |-> "nothing"],
        [kind |-> "retryConfig", retryConfig |-> FilterRetryConfig]}

\* Calling a filter function value: what it returns, a key that is null or
\* undefined left out.
applyFilter(fn, requestType, url, data, config) ==
  CASE fn.kind = "modify" ->
         [data |-> fn.data, config |-> Spread(config, [headers |-> "X-Custom: test"])]
    [] fn.kind = "noData" -> [config |-> config]
    [] fn.kind = "nothing" -> Empty
    [] fn.kind = "retryConfig" ->
         [data |-> data, config |-> Spread(config, [retryConfig |-> fn.retryConfig])]
    [] OTHER -> preRequestFilter(requestType, url, data, config)

\* The deprecated beforeRequestFilter of the base class.
beforeRequestFilter(sub, requestType, url, data, config) ==
  applyFilter(Method(sub, "preRequestFilter"), requestType, url, data, config)

(***************************************************************************)
(* The retry interceptor of axios-retry, which the constructor installs    *)
(* with axiosRetry(client, retryConfig).                                   *)
(***************************************************************************)
DEFAULT_OPTIONS ==
  [retries |-> 3,
   retryCondition |-> "isNetworkOrIdempotentRequestError",
   retryDelay |-> [kind |-> "noDelay"],
   shouldResetTimeout |-> FALSE,
   onRetry |-> [kind |-> "noop"]]

IDEMPOTENT_HTTP_METHODS == {"get", "head", "options", "put", "delete"}

\* The request interceptor: the state of the retries of one request lives in
\* the request config, under 'axios-retry'.
setCurrentState(config, defaultOptions) ==
  LET own == IF Has(config, "axios-retry") THEN config["axios-retry"] ELSE Empty
      currentState == Spread(Spread(DEFAULT_OPTIONS, defaultOptions), own)
  IN Assign(config, "axios-retry",
            Assign(currentState, "retryCount", OrNum(currentState, "retryCount", 0)))

isNetworkError(error) ==
  /\ ~Has(error, "response")
  /\ Has(error, "code")
  /\ error.code # "ECONNABORTED"

isRetryableError(error) ==
  /\ ~(Has(error, "code") /\ error.code = "ECONNABORTED")
  /\ (~Has(error, "response")
      \/ (error.response.status >= 500 /\ error.response.status <= 599))

isIdempotentRequestError(error) ==
  /\ Has(error, "config")
  /\ Has(error.config, "method")
  /\ isRetryableError(error)
  /\ error.config.method \in IDEMPOTENT_HTTP_METHODS

isNetworkOrIdempotentRequestError(error) ==
  isNetworkError(error) \/ isIdempotentRequestError(error)

\* Calling a retryCondition function value.
applyRetryCondition(fn, error) ==
  CASE fn = "isNetworkOrIdempotentRequestError" -> isNetworkOrIdempotentRequestError(error)
    [] fn = "isRetryableError" -> isRetryableError(error)
    [] OTHER -> TRUE

shouldRetry(currentState, error) ==
  /\ currentState.retryCount < currentState.retries
  /\ applyRetryCondition(currentState.retryCondition, error)

\* axios lower-cases the method of the request config.
MethodOf(requestType) ==
  CASE requestType = "GET" -> "get"
    [] requestType = "POST" -> "post"
    [] requestType = "PUT" -> "put"
    [] requestType = "PATCH" -> "patch"
    [] requestType = "DELETE" -> "delete"

\* The error object of a failed attempt: axios attaches the request config.
AxiosErrorOf(shape, sent) ==
  IF shape.hasConfig
  THEN Assign(Delete(shape, "hasConfig"), "config", sent)
  ELSE Delete(shape, "hasConfig")

(***************************************************************************)
(* The logger.  The console is the sequence of what was logged: a titled   *)
(* dump per logData, a line per console.log.  A value that may be          *)
(* undefined is passed as the set of its values, {} or {v}.                *)
(***************************************************************************)
\* `${error.message}`
MessageText(error) == IF Has(error, "message") THEN error.message ELSE "undefined"

\* o[k] as a value that may be undefined.
Field(o, k) == IF Has(o, k) THEN {o[k]} ELSE {}

\* The object graph of obj has a cycle.
HasCycle(obj) ==
  \/ Has(obj, "socket")
  \/ Has(obj, "request") /\ Has(obj.request, "socket")

\* JSON.stringify without a replacer: a cycle makes it throw a TypeError.
safeStringifyUnguarded(obj) ==
  IF HasCycle(obj) THEN [throws |-> "TypeError"] ELSE [json |-> obj, circular |-> FALSE]

\* JSON.stringify with the replacer that writes '[Circular]' for an object
\* it has seen.
safeStringify(obj) == [json |-> obj, circular |-> HasCycle(obj)]

\* logData(title, data): the title line, and the dump of data when there is
\* one (every data logged here is an object).
logData(title, data) == [title |-> title, dump |-> {safeStringify(obj) : obj \in data}]

\* console.log(message)
consoleLog(message) == [line |-> message]

\* Writing these entries throws.
LogThrows(entries) ==
  \E k \in 1..Len(entries) :
    Has(entries[k], "dump") /\ \E d \in entries[k].dump : Has(d, "throws")

\* The TypeError of JSON.stringify.
TypeErrorOf(message) == [type |-> "TypeError", message |-> <<message>>]

\* What preRequestAction logs.
preRequestAction(this, requestType, url, data, config) ==
  IF this.debug
  THEN IF this.debugLevel = "verbose"
       THEN <<logData(<<"[", this.name, "] ", requestType, " ", url>>,
                      {[data |-> data, config |-> config]})>>
       ELSE <<logData(<<"[", this.name, "] ", requestType, " ", url>>, {[data |-> data]})>>
  ELSE <<>>

\* What the onRetry of defaultRetryConfig logs.
logRetry(this, name, retryCount, error, requestConfig) ==
  IF this.debug
  THEN <<consoleLog(<<"[", name, "] Retry #", ToString(retryCount), " for ",
                     requestConfig.baseURL, requestConfig.url, " due to error: ",
                     MessageText(error)>>)>>
  ELSE <<>>

\* What the preRequestAction of an extending class logs.
customAction(requestType, url) == <<consoleLog(<<"custom action ", requestType, " ", url>>)>>

\* Calling an action function value.
applyAction(fn, this, requestType, url, data, config) ==
  IF fn.kind = "customAction" THEN customAction(requestType, url)
  ELSE preRequestAction(this, requestType, url, data, config)

\* The deprecated beforeRequestAction of the base class.
beforeRequestAction(sub, this, requestType, url, data, config) ==
  applyAction(Method(sub, "preRequestAction"), this, requestType, url, data, config)

\* Calling an onRetry function value.
applyOnRetry(fn, this, retryCount, error, requestConfig) ==
  IF fn.kind = "logRetry" THEN logRetry(this, fn.name, retryCount, error, requestConfig)
  ELSE <<>>

(***************************************************************************)
(* errorHandler: the error thrown to the caller for a failed dispatch.     *)
(***************************************************************************)
\* error.toString(): "name: message", the name alone without a message
toString(error) ==
  IF Has(error, "message") /\ error.message # ""
  THEN <<error.name, ": ", error.message>>
  ELSE <<error.name>>

ApiResponseError(message, status, response, cause) ==
  [type |-> "ApiResponseError", message |-> message, status |-> status,
   response |-> response, cause |-> cause]

\* new Error(message, { cause })
ErrorWithCause(message, cause) == [type |-> "Error", message |-> message, cause |-> cause]

\* new Error(error): the message is String(error), there is no cause
ErrorOf(error) == [type |-> "Error", message |-> toString(error)]

\* handleResponseNotReceivedOrOtherError without the branch on error.request:
\* a failure without response is always reported as one before sending.
handleResponseNotReceivedOrOtherErrorFlat(this, error, reqType, url) ==
  IF Has(error, "message") /\ error.message # ""
  THEN ErrorWithCause(<<"[", this.name, "] ", reqType, " ", url, " : ", error.message>>,
                      error)
  ELSE ErrorOf(error)

\* What handleResponseNotReceivedOrOtherError logs before it throws.
handleResponseNotReceivedOrOtherErrorLog(this, error, reqType, url) ==
  IF ~this.debug THEN <<>>
  ELSE IF Has(error, "request")
       THEN (IF this.debugLevel = "verbose"
             THEN <<logData(<<this.name, "] ", reqType, " ", url, ": error.config">>,
                            Field(error, "config"))>>
             ELSE <<>>)
            \o <<logData(<<"[", this.name, "] ", reqType, " ", url, " : error.request">>,
                         Field(error, "request"))>>
       ELSE IF this.debugLevel = "verbose"
            THEN <<logData(<<"[", this.name, "] ", reqType, " ", url, " : error">>, {error})>>
            ELSE <<consoleLog(<<"[", this.name, "] ", reqType, " ", url, " error.message : ",
                                MessageText(error)>>)>>

handleResponseNotReceivedOrOtherError(this, error, reqType, url) ==
  IF LogThrows(handleResponseNotReceivedOrOtherErrorLog(this, error, reqType, url))
  THEN TypeErrorOf("Converting circular structure to JSON")
  ELSE IF Has(error, "request")
  THEN ErrorWithCause(<<"[", this.name, "] ", reqType, " ", url, " [no response] : ",
                        MessageText(error)>>, error)
  ELSE IF Has(error, "message") /\ error.message # ""
       THEN ErrorWithCause(<<"[", this.name, "] ", reqType, " ", url, " : ", error.message>>,
                           error)
       ELSE ErrorOf(error)

\* errorHandler without the branch for a body that has no message.
errorHandlerMessageOnly(this, error, reqType, url) ==
  IF Has(error, "response")
  THEN LET response == error.response
       IN IF Has(response, "data") /\ Has(response, "status") /\ response.status # 0
             /\ Has(response.data, "message") /\ response.data.message # ""
          THEN ApiResponseError(<<"[", this.name, "] ", reqType, " ", url, " : [",
                                  ToString(response.status), "] ", response.data.message>>,
                                response.status, response.data, toString(error))
          ELSE ErrorOf(error)
  ELSE handleResponseNotReceivedOrOtherError(this, error, reqType, url)

\* errorHandler without the branch for an error that carries a response.
errorHandlerGeneric(this, error, reqType, url) ==
  handleResponseNotReceivedOrOtherError(this, error, reqType, url)

\* What errorHandler logs before it throws.
errorHandlerLog(this, error, reqType, url) ==
  IF Has(error, "response")
  THEN IF ~this.debug THEN <<>>
       ELSE IF this.debugLevel = "verbose"
            THEN <<logData(<<"[", this.name, "] ", reqType, " ", url, " : error.response">>,
                           {error.response})>>
            ELSE <<logData(<<"[", this.name, "] ", reqType, " ", url, " : error.response.data">>,
                           Field(error.response, "data"))>>
  ELSE handleResponseNotReceivedOrOtherErrorLog(this, error, reqType, url)

errorHandler(this, error, reqType, url) ==
  IF Has(error, "response")
  THEN LET response == error.response
           hasData == Has(response, "data")
           hasStatus == Has(response, "status") /\ response.status # 0
           hasMessage == hasData /\ Has(response.data, "message") /\ response.data.message # ""
       IN IF LogThrows(errorHandlerLog(this, error, reqType, url))
          THEN TypeErrorOf("Converting circular structure to JSON")
          ELSE IF hasData /\ hasStatus /\ hasMessage
          THEN ApiResponseError(<<"[", this.name, "] ", reqType, " ", url, " : [",
                                  ToString(response.status), "] ", response.data.message>>,
                                response.status, response.data, toString(error))
          ELSE IF hasStatus /\ hasData /\ ~hasMessage
               THEN ApiResponseError(<<"[", this.name, "] ", reqType, " ", url, " : [",
                                       ToString(response.status), "]">>,
                                     response.status, response.data, toString(error))
               ELSE ErrorOf(error)
  ELSE handleResponseNotReceivedOrOtherError(this, error, reqType, url)

(***************************************************************************)
(* The state: the options the caller gave the constructor, the client      *)
(* object, and one record per call slot.                                   *)
(***************************************************************************)
IdleCall ==
  [pc |-> "idle", requestType |-> "", url |-> "", data |-> Undefined,
   arg |-> Empty, config |-> Empty, sent |-> Empty,
   attempts |-> 0, failures |-> 0, error |-> Empty, delay |-> 0,
   result |-> Empty, thrown |-> 0, hooks |-> <<>>, log |-> <<>>,
   argData |-> Undefined, axiosInstance |-> Empty, argObject |-> Empty]

\* getRetryDelay has not been called on its own.
NotEvaluated == [retryCount |-> 0, error |-> Empty, backoff |-> "", delayFactor |-> 0,
                 returned |-> <<>>]

\* The class constructed is AxiosRetryClient itself.
Init ==
  /\ given \in ClientOptions
  /\ client = constructor(given)
  /\ calls = [i \in CallIds |-> IdleCall]
  /\ subclass = Empty
  /\ evaluated = NotEvaluated
  /\ options = Delete(given, "retryConfig")

(***************************************************************************)
(* _request up to its first await: the retryConfig merge, then the call    *)
(* of preRequestFilter.                                                    *)
(***************************************************************************)
\* _request writing the merged retryConfig into the client
\* (Object.assign(this.retryConfig, config.retryConfig)); the interceptor's
\* options are the same object.
_requestShared(i, requestType, url, data, config) ==
  LET merged == mergeRetryConfig(client, config)
      retryConfig == IF Has(merged, "axios-retry") THEN merged["axios-retry"]
                     ELSE client.retryConfig
  IN /\ calls[i].pc = "idle"
     /\ calls' = [calls EXCEPT ![i] =
          [IdleCall EXCEPT !.pc = "preRequestFilter", !.requestType = requestType,
                           !.url = url, !.data = data, !.arg = config, !.argData = data,
                           !.config = merged, !.hooks = <<"preRequestFilter">>]]
     /\ client' = [client EXCEPT !.retryConfig = retryConfig,
                                 !.axios.retryOptions = retryConfig]
     /\ UNCHANGED <<given, subclass, evaluated, options>>

\* _request calling the filter through the deprecated beforeRequestFilter
\* and again directly.
_requestFilterTwice(i, requestType, url, data, config) ==
  /\ calls[i].pc = "idle"
  /\ calls' = [calls EXCEPT ![i] =
       [IdleCall EXCEPT !.pc = "preRequestFilter", !.requestType = requestType,
                        !.url = url, !.data = data, !.arg = config, !.argData = data,
                        !.config = mergeRetryConfig(client, config),
                        !.hooks = <<"preRequestFilter", "preRequestFilter">>]]
  /\ UNCHANGED <<given, client, subclass, evaluated, options>>

_request(i, requestType, url, data, config) ==
  /\ calls[i].pc = "idle"
  /\ calls' = [calls EXCEPT ![i] =
       [IdleCall EXCEPT !.pc = "preRequestFilter", !.requestType = requestType,
                        !.url = url, !.data = data, !.arg = config, !.argData = data,
                        !.config = mergeRetryConfig(client, config),
                        \* `config` is still the caller's object when line 168 writes to it
                        !.argObject = mergeRetryConfig(client, config),
                        !.hooks = <<"preRequestFilter">>]]
  /\ UNCHANGED <<given, client, subclass, evaluated, options>>

get(i, url, config) == _request(i, "GET", url, Undefined, config)

post(i, url, data, config) == _request(i, "POST", url, data, config)

put(i, url, data, config) == _request(i, "PUT", url, data, config)

patch(i, url, data, config) == _request(i, "PATCH", url, data, config)

delete(i, url, config) == _request(i, "DELETE", url, Undefined, config)

\* afterFilter with `filteredArgs.data || data`: a falsy payload of the
\* filter, such as '', gives way to the caller's.
afterFilterFalsy(i) ==
  LET c == calls[i]
      filteredArgs == applyFilter(Method(subclass, "preRequestFilter"),
                                  c.requestType, c.url, c.data, c.config)
      data == IF Has(filteredArgs, "data") /\ filteredArgs.data # "" THEN filteredArgs.data
              ELSE c.data
      config == IF Has(filteredArgs, "config") THEN filteredArgs.config ELSE c.config
  IN /\ c.pc = "preRequestFilter"
     /\ calls' = [calls EXCEPT ![i] =
          [c EXCEPT !.pc = "preRequestAction", !.data = data, !.config = config,
                    !.hooks = Append(c.hooks, "preRequestAction"),
                    !.log = c.log \o applyAction(Method(subclass, "preRequestAction"), client,
                                                 c.requestType, c.url, data, config)]]
     /\ UNCHANGED <<given, client, subclass, evaluated, options>>

\* An error an overriding hook throws.
HookError == [type |-> "Error", name |-> "Error", message |-> "hook failed"]

\* The function value is a hook that throws.
Throws(fn) == fn.kind = "throws"

\* afterFilter with the awaits of the hooks inside the try of _request: the
\* error of a hook goes to errorHandler.
afterFilterClassified(i) ==
  LET c == calls[i]
      filter == Method(subclass, "preRequestFilter")
      action == Method(subclass, "preRequestAction")
      filteredArgs == applyFilter(filter, c.requestType, c.url, c.data, c.config)
      data == IF Has(filteredArgs, "data") THEN filteredArgs.data ELSE c.data
      config == IF Has(filteredArgs, "config") THEN filteredArgs.config ELSE c.config
  IN /\ c.pc = "preRequestFilter"
     /\ calls' = [calls EXCEPT ![i] =
          IF Throws(filter) \/ Throws(action)
          THEN [c EXCEPT !.pc = "thrown", !.thrown = c.thrown + 1,
                         !.result = errorHandler(client, HookError, c.requestType, c.url)]
          ELSE [c EXCEPT !.pc = "preRequestAction", !.data = data, !.config = config,
                         !.hooks = Append(c.hooks, "preRequestAction"),
                         !.log = c.log \o applyAction(action, client, c.requestType, c.url,
                                                      data, config)]]
     /\ UNCHANGED <<given, client, subclass, evaluated, options>>

\* _request resumes with the filter's result (`?? data`, `?? config` keep
\* the own value when the filter returns none) and calls preRequestAction.
\* Both hooks are awaited outside the try of _request: when one throws, or
\* when the logging of the base preRequestAction does, the call is
\* rejected with that error here.
afterFilter(i) ==
  LET c == calls[i]
      filter == Method(subclass, "preRequestFilter")
      action == Method(subclass, "preRequestAction")
      filteredArgs == applyFilter(filter, c.requestType, c.url, c.data, c.config)
      data == IF Has(filteredArgs, "data") THEN filteredArgs.data ELSE c.data
      config == IF Has(filteredArgs, "config") THEN filteredArgs.config ELSE c.config
      logged == applyAction(action, client, c.requestType, c.url, data, config)
      resumed == [c EXCEPT !.data = data,
                           !.config = config,
                           !.hooks = Append(c.hooks, "preRequestAction")]
  IN /\ c.pc = "preRequestFilter"
     /\ calls' = [calls EXCEPT ![i] =
          IF Throws(filter)
          THEN [c EXCEPT !.pc = "thrown", !.thrown = c.thrown + 1, !.result = filter.error]
          ELSE IF Throws(action)
          THEN [resumed EXCEPT !.pc = "thrown", !.thrown = c.thrown + 1,
                               !.result = action.error]
          ELSE IF LogThrows(logged)
          THEN [resumed EXCEPT !.pc = "thrown", !.thrown = c.thrown + 1,
                               !.result = TypeErrorOf("Converting circular structure to JSON")]
          ELSE [resumed EXCEPT !.pc = "preRequestAction", !.log = c.log \o logged]]
     /\ UNCHANGED <<given, client, subclass, evaluated, options>>

\* RequestConfigOf passing the payload with every verb.
RequestConfigOfPayloadAlways(this, c) ==
  Assign(Spread(Spread(this.axios.defaults, c.config),
                [method |-> MethodOf(c.requestType), url |-> c.url]),
         "data", c.data)

\* The request config axios hands to the adapter: the instance defaults, the
\* call's config over them, the method, url and payload.
RequestConfigOf(this, c) ==
  LET merged == Spread(Spread(this.axios.defaults, c.config),
                       [method |-> MethodOf(c.requestType), url |-> c.url])
  IN IF c.requestType \in {"POST", "PUT", "PATCH"} THEN Assign(merged, "data", c.data)
     ELSE merged

\* _request resumes after preRequestAction and calls this.axios.<verb>: the
\* request interceptor runs and the first attempt reaches the transport.
dispatch(i) ==
  LET c == calls[i]
  IN /\ c.pc = "preRequestAction"
     /\ calls' = [calls EXCEPT ![i].pc = "inflight",
                               ![i].sent = setCurrentState(RequestConfigOf(client, c),
                                                           client.axios.retryOptions),
                               ![i].attempts = 1]
     /\ UNCHANGED <<given, client, subclass, evaluated, options>>

\* respond returning { request: req, data: req }.
respondWhole(i, response) ==
  /\ calls[i].pc = "inflight"
  /\ calls' = [calls EXCEPT ![i].pc = "returned",
                            ![i].result = [request |-> response, data |-> response]]
  /\ UNCHANGED <<given, client, subclass, evaluated, options>>

\* The attempt succeeds: _request returns { request: req, data: req.data }.
respond(i, response) ==
  /\ calls[i].pc = "inflight"
  /\ calls' = [calls EXCEPT ![i].pc = "returned",
                            ![i].result = [request |-> response,
                                           data |-> IF Has(response, "data")
                                                    THEN response.data ELSE Empty]]
  /\ UNCHANGED <<given, client, subclass, evaluated, options>>

\* A catch that swallows the error: _request goes on to its return.
ThrownSwallowed(c, this, error, sent) ==
  [c EXCEPT !.pc = "returned", !.sent = sent, !.error = error,
            !.failures = c.failures + 1,
            !.result = [request |-> Empty, data |-> Empty]]

\* Thrown with `req?.data` in the return of _request: after an errorHandler
\* that returns, the call resolves with an envelope of undefined.
ThrownUnchecked(c, this, error, sent) ==
  IF Method(subclass, "errorHandler").kind = "returns"
  THEN [c EXCEPT !.pc = "returned", !.sent = sent, !.error = error,
                 !.failures = c.failures + 1,
                 !.result = [request |-> Empty, data |-> Empty]]
  ELSE [c EXCEPT !.pc = "thrown", !.sent = sent, !.error = error,
                 !.failures = c.failures + 1,
                 !.result = errorHandler(this, error, c.requestType, c.url),
                 !.thrown = c.thrown + 1]

\* The dispatch is rejected for good: the catch of _request hands the error
\* to errorHandler, which throws.  After an errorHandler of an extending
\* class that returns, _request goes on to `req!.data` with req undefined,
\* which throws a TypeError.
Thrown(c, this, error, sent) ==
  IF Method(subclass, "errorHandler").kind = "returns"
  THEN [c EXCEPT !.pc = "thrown", !.sent = sent, !.error = error,
                 !.failures = c.failures + 1,
                 !.result = TypeErrorOf("Cannot read properties of undefined (reading 'data')"),
                 !.thrown = c.thrown + 1]
  ELSE [c EXCEPT !.pc = "thrown", !.sent = sent, !.error = error,
                 !.failures = c.failures + 1,
                 !.result = errorHandler(this, error, c.requestType, c.url),
                 !.log = IF LogThrows(errorHandlerLog(this, error, c.requestType, c.url))
                         THEN c.log
                         ELSE c.log \o errorHandlerLog(this, error, c.requestType, c.url),
                 !.thrown = c.thrown + 1]

\* handleRetry of the interceptor: the retry is counted, its delay computed,
\* and, when the request has a timeout, the time already spent and the delay
\* are taken off it; nothing left of it ends the retries.
handleRetry(c, this, currentState, error, delay, lastRequestDuration) ==
  LET state == Assign(currentState, "retryCount", currentState.retryCount + 1)
      config == Assign(c.sent, "axios-retry", state)
      timed == ~state.shouldResetTimeout /\ Has(config, "timeout") /\ config.timeout # 0
      timeout == config.timeout - lastRequestDuration - delay
  IN IF timed /\ timeout <= 0
     THEN Thrown(c, this, Assign(error, "config", config), config)
     ELSE [c EXCEPT !.pc = "backoff", !.delay = delay, !.error = error,
                    !.failures = c.failures + 1,
                    !.log = c.log \o applyOnRetry(state.onRetry, this, state.retryCount,
                                                  error, config),
                    !.sent = IF timed THEN Assign(config, "timeout", timeout) ELSE config]

\* The attempt fails: the response interceptor either schedules a retry or
\* rejects, and a rejection is thrown by errorHandler.
fail(i, shape, lastRequestDuration) ==
  LET c == calls[i]
      error == AxiosErrorOf(shape, c.sent)
      currentState == setCurrentState(c.sent, client.axios.retryOptions)["axios-retry"]
      retryCount == currentState.retryCount + 1
  IN /\ c.pc = "inflight"
     /\ IF Has(error, "config") /\ shouldRetry(currentState, error)
        THEN \E delay \in applyRetryDelay(currentState.retryDelay, retryCount, error,
                                          client, c.config) :
               calls' = [calls EXCEPT ![i] =
                           handleRetry(c, client, currentState, error, delay,
                                       lastRequestDuration)]
        ELSE calls' = [calls EXCEPT ![i] = Thrown(c, client, error, c.sent)]
     /\ UNCHANGED <<given, client, subclass, evaluated, options>>

\* retry sending the request without waiting for the attempt before it to
\* be over: two attempts of the call are out together.
retryTwice(i) ==
  LET c == calls[i]
  IN /\ c.pc = "backoff"
     /\ calls' = [calls EXCEPT ![i].pc = "inflight",
                               ![i].sent = setCurrentState(c.sent, client.axios.retryOptions),
                               ![i].attempts = c.attempts + 2,
                               ![i].error = Empty,
                               ![i].delay = 0]
     /\ UNCHANGED <<given, client, subclass, evaluated, options>>

\* A retry whose timer never fires: the call stays in its backoff.
retryNever(i) ==
  /\ calls[i].pc = "backoff"
  /\ UNCHANGED vars

\* The delay has passed: the interceptor sends the same request config again.
retry(i) ==
  LET c == calls[i]
  IN /\ c.pc = "backoff"
     /\ calls' = [calls EXCEPT ![i].pc = "inflight",
                               ![i].sent = setCurrentState(c.sent, client.axios.retryOptions),
                               ![i].attempts = c.attempts + 1,
                               ![i].error = Empty,
                               ![i].delay = 0]
     /\ UNCHANGED <<given, client, subclass, evaluated, options>>

\* The caller has the outcome; the slot is free for its next call.
settle(i) ==
  /\ calls[i].pc \in {"returned", "thrown"}
  /\ calls' = [calls EXCEPT ![i] = IdleCall]
  /\ UNCHANGED <<given, client, subclass, evaluated, options>>

Step(i, configs, errors) ==
  \/ \E url \in Urls, config \in configs : get(i, url, config)
  \/ \E url \in Urls, data \in Payloads, config \in configs : post(i, url, data, config)
  \/ \E url \in Urls, data \in Payloads, config \in configs : put(i, url, data, config)
  \/ \E url \in Urls, data \in Payloads, config \in configs : patch(i, url, data, config)
  \/ \E url \in Urls, config \in configs : delete(i, url, config)
  \/ afterFilter(i)
  \/ dispatch(i)
  \/ \E response \in SuccessResponses : respond(i, response)
  \/ \E shape \in errors, d \in LastRequestDurations : fail(i, shape, d)
  \/ retry(i)
  \/ settle(i)

\* One call at a time, any number of calls one after the other.
Next == \E i \in SeqCalls : Step(i, RequestConfigs, TransportErrors)

Spec == Init /\ [][Next]_vars

(***************************************************************************)
(* Calls in flight together on one client: every await of _request and     *)
(* every retry timer is a point where another call can run.                *)
(***************************************************************************)
\* The clients of the concurrent runs: no retryConfig, and one retry with
\* linear backoff.
ConcurrentOptions ==
  {BaseOptions,
   Spread(BaseOptions, [retryConfig |-> [retries |-> 1, backoff |-> "linear",
                                         delayFactor |-> 200]])}

\* The per-call configs of the concurrent runs: no override, one that turns
\* the retries off, one that raises them and changes the backoff.
ConcurrentConfigs ==
  {Empty,
   [retryConfig |-> [retries |-> 0]],
   [retryConfig |-> [retries |-> MaxRetries, backoff |-> "none", delayFactor |-> 300]]}

\* The failures of the concurrent runs: a network drop and a 404.
ConcurrentErrors ==
  {e \in TransportErrors :
     \/ Has(e, "code") /\ e.code = "ERR_NETWORK"
     \/ Has(e, "response") /\ e.response = [status |-> 404, data |-> [message |-> "Not Found"]]}

InitConcurrent ==
  /\ given \in ConcurrentOptions
  /\ client = constructor(given)
  /\ calls = [i \in CallIds |-> IdleCall]
  /\ subclass = Empty
  /\ evaluated = NotEvaluated
  /\ options = Delete(given, "retryConfig")

NextConcurrent == \E i \in CallIds : Step(i, ConcurrentConfigs, ConcurrentErrors)

SpecConcurrent == InitConcurrent /\ [][NextConcurrent]_vars

(***************************************************************************)
(* One call at a time under fairness: the event loop runs every            *)
(* continuation of _request and every retry timer that is due, and the     *)
(* transport ends every attempt.                                           *)
(***************************************************************************)
\* The clients of the fair runs: those of the concurrent runs and one with
\* a timeout on its requests.
FairOptions ==
  ConcurrentOptions
  \cup {Spread(BaseOptions, [retryConfig |-> [retries |-> MaxRetries, backoff |-> "linear"],
                              axiosConfig |-> [timeout |-> 1000]])}

InitFair ==
  /\ given \in FairOptions
  /\ client = constructor(given)
  /\ calls = [i \in CallIds |-> IdleCall]
  /\ subclass = Empty
  /\ evaluated = NotEvaluated
  /\ options = Delete(given, "retryConfig")

NextFair == \E i \in SeqCalls : Step(i, ConcurrentConfigs, ConcurrentErrors)

\* The transport answers the attempt in flight, with a response or a failure.
Answer(i) ==
  \/ \E response \in SuccessResponses : respond(i, response)
  \/ \E shape \in ConcurrentErrors, lastRequestDuration \in LastRequestDurations :
       fail(i, shape, lastRequestDuration)

Fairness ==
  \A i \in SeqCalls :
    /\ WF_vars(afterFilter(i))
    /\ WF_vars(dispatch(i))
    /\ WF_vars(Answer(i))
    /\ WF_vars(retry(i))

SpecFair == InitFair /\ [][NextFair]_vars /\ Fairness

(***************************************************************************)
(* Clients constructed one after the other from one options object of the  *)
(* caller.  `given` is the object as the caller first passed it, `options` *)
(* the same object as the constructor calls have left it, `client` the     *)
(* client constructed last; calls are made on that client.                 *)
(***************************************************************************)
\* new AxiosRetryClient(options), while no call is under way.
construct ==
  /\ \A i \in CallIds : calls[i].pc = "idle"
  /\ client' = constructor(options)
  \* `delete config.retryConfig` on the caller's object
  /\ options' = Delete(options, "retryConfig")
  /\ UNCHANGED <<given, calls, subclass, evaluated>>

InitConstruct ==
  /\ given \in ClientOptions
  /\ client = constructor(given)
  /\ calls = [i \in CallIds |-> IdleCall]
  /\ subclass = Empty
  /\ evaluated = NotEvaluated
  /\ options = Delete(given, "retryConfig")

NextConstruct == construct \/ NextFair

SpecConstruct == InitConstruct /\ [][NextConstruct]_vars

(***************************************************************************)
(* Extending classes: a class that overrides one of the hooks.             *)
(***************************************************************************)
\* The extending classes: the base class itself, one per filter override,
\* one whose preRequestAction is its own, and two that override only a
\* deprecated hook.
Subclasses ==
  {Empty}
  \cup {[preRequestFilter |-> f] : f \in FilterOverrides}
  \cup {[preRequestAction |-> [kind |-> "customAction"]],
        [beforeRequestFilter |-> [kind |-> "modify", data |-> "payload, modified: true"]],
        [beforeRequestAction |-> [kind |-> "customAction"]],
        [preRequestFilter |-> [kind |-> "throws", error |-> HookError]],
        [preRequestAction |-> [kind |-> "throws", error |-> HookError]],
        [errorHandler |-> [kind |-> "returns"]]}

\* The clients of the extending classes: no retryConfig, and one retry.
HookOptions ==
  {BaseOptions,
   Spread(BaseOptions, [retryConfig |-> [retries |-> 1], debug |-> TRUE])}

\* The per-call configs given to them: none, and an override that names a
\* backoff.
HookConfigs == {Empty, [retryConfig |-> [backoff |-> "none"]]}

\* The failures of their calls: a network drop and a 404.
HookErrors == ConcurrentErrors

InitHooks ==
  /\ given \in HookOptions
  /\ client = constructor(given)
  /\ calls = [i \in CallIds |-> IdleCall]
  /\ subclass \in Subclasses
  /\ evaluated = NotEvaluated
  /\ options = Delete(given, "retryConfig")

NextHooks == \E i \in SeqCalls : Step(i, HookConfigs, HookErrors)

SpecHooks == InitHooks /\ [][NextHooks]_vars

(***************************************************************************)
(* getRetryDelay called on its own, as the interceptor calls the           *)
(* retryDelay function: with a retry number, the error of the failed       *)
(* attempt, a backoff and a delayFactor.  `evaluated` keeps the arguments  *)
(* and the delays that successive calls with them returned.                *)
(***************************************************************************)
\* How many times getRetryDelay is called with the same arguments.
Evaluations == 2

DelayFactors == {0, 200, 500}

\* The error argument: a network error, a response without a Retry-After
\* header, and a response with Retry-After: 1.5 s.
BackoffErrors ==
  {[name |-> "AxiosError", message |-> "Network Error", code |-> "ERR_NETWORK",
    request |-> ClientRequest, hasConfig |-> TRUE],
   [name |-> "AxiosError", message |-> "Request failed", code |-> "ERR_BAD_RESPONSE",
    request |-> ClientRequest, response |-> [status |-> 500], hasConfig |-> TRUE],
   [name |-> "AxiosError", message |-> "Request failed", code |-> "ERR_BAD_RESPONSE",
    request |-> ClientRequest, response |-> [status |-> 503, retryAfter |-> 1500],
    hasConfig |-> TRUE]}

InitBackoff ==
  /\ given = BaseOptions
  /\ client = constructor(given)
  /\ calls = [i \in CallIds |-> IdleCall]
  /\ subclass = Empty
  /\ options = Delete(given, "retryConfig")
  /\ evaluated \in {[retryCount |-> n, error |-> err, backoff |-> b, delayFactor |-> f,
                      returned |-> <<>>] :
                       n \in 0..MaxRetries, err \in BackoffErrors,
                       b \in BackoffOptions, f \in DelayFactors}

\* One call of getRetryDelay: it assigns nothing and returns a delay.
Evaluate ==
  /\ Len(evaluated.returned) < Evaluations
  /\ \E d \in getRetryDelay(evaluated.retryCount, evaluated.error,
                             evaluated.backoff, evaluated.delayFactor) :
       evaluated' = [evaluated EXCEPT !.returned = Append(@, d)]
  /\ UNCHANGED <<given, client, calls, subclass, options>>

NextBackoff == Evaluate

SpecBackoff == InitBackoff /\ [][NextBackoff]_vars

(***************************************************************************)
(* The enableRetry variant of the class (the second half of                *)
(* axios-retry-client.ts): the interceptor is installed on the shared      *)
(* instance only with enableRetry, and a call that brings its own          *)
(* 'axios-retry' config to a client without it gets an instance of its     *)
(* own.  The call record keeps the local variable axiosInstance.           *)
(***************************************************************************)
\* The options given to the constructor: enableRetry unset, false and true,
\* with and without a retryConfig.
EnableRetryOptions ==
  Join(Join({BaseOptions}, Opt("enableRetry", BOOLEAN)),
       Opt("retryConfig", {[retries |-> n] : n \in 0..MaxRetries}))

\* The per-call configs: none, transport options, an 'axios-retry' override
\* with retries, and an empty override.
EnableRetryConfigs ==
  {Empty, [params |-> "foo=bar"]}
  \cup {Assign(Empty, "axios-retry", rc) :
          rc \in {Empty} \cup {[retries |-> n] : n \in 0..MaxRetries}}

constructorEnableRetry(config) ==
  LET config2 == Spread([axiosConfig |-> Empty,
                         retryConfig |-> [retries |-> 3,
                                          retryDelay |-> [kind |-> "exponentialDelay"]],
                         enableRetry |-> FALSE, debug |-> FALSE, debugLevel |-> "normal",
                         name |-> "AxiosRetryClient"],
                        config)
      defaults == Spread(config2.axiosConfig, [baseURL |-> config2.baseURL])
  IN [axiosConfig |-> config2.axiosConfig,
      baseURL |-> config2.baseURL,
      debug |-> config2.debug,
      debugLevel |-> config2.debugLevel,
      name |-> config2.name,
      retryConfig |-> config2.retryConfig,
      enableRetry |-> config2.enableRetry,
      \* axios.create(...), and axiosRetry(client, retryConfig) with enableRetry
      axios |-> IF config2.enableRetry
                THEN [instance |-> "shared", defaults |-> defaults,
                      retryOptions |-> config2.retryConfig]
                ELSE [instance |-> "shared", defaults |-> defaults]]

createNewAxiosInstanceWithRetry(this, retryConfig) ==
  [instance |-> "fresh",
   defaults |-> Spread(this.axiosConfig, [baseURL |-> this.baseURL]),
   retryOptions |-> Spread(this.retryConfig, retryConfig)]

\* Calling a retryDelay function value; axiosRetry.exponentialDelay called
\* by the interceptor has its default delayFactor of 100.
applyRetryDelayEnableRetry(fn, retryCount, error) ==
  IF fn.kind = "exponentialDelay" THEN exponentialDelay(retryCount, error, 100)
  ELSE {0}

\* errorHandler of the variant: the cause of an ApiResponseError is the
\* error itself.
errorHandlerEnableRetry(this, error, reqType, url) ==
  LET thrown == errorHandler(this, error, reqType, url)
  IN IF thrown.type = "ApiResponseError" THEN [thrown EXCEPT !.cause = error] ELSE thrown

InitEnableRetry ==
  /\ given \in EnableRetryOptions
  /\ client = constructorEnableRetry(given)
  /\ calls = [i \in CallIds |-> IdleCall]
  /\ subclass = Empty
  /\ evaluated = NotEvaluated
  /\ options = given

\* _request up to its first await: the call of preRequestFilter.
_requestEnableRetry(i, requestType, url, data, config) ==
  /\ calls[i].pc = "idle"
  /\ calls' = [calls EXCEPT ![i] =
       [IdleCall EXCEPT !.pc = "preRequestFilter", !.requestType = requestType,
                        !.url = url, !.data = data, !.arg = config, !.argData = data,
                        !.config = config, !.argObject = config,
                        !.hooks = <<"preRequestFilter">>]]
  /\ UNCHANGED <<given, client, subclass, evaluated, options>>

\* _request takes data and config from the filter's result and calls
\* preRequestAction.
afterFilterEnableRetry(i) ==
  LET c == calls[i]
      filteredArgs == applyFilter(Method(subclass, "preRequestFilter"),
                                  c.requestType, c.url, c.data, c.config)
      logged == applyAction(Method(subclass, "preRequestAction"), client,
                            c.requestType, c.url, filteredArgs.data, filteredArgs.config)
  IN /\ c.pc = "preRequestFilter"
     /\ calls' = [calls EXCEPT ![i].pc = "preRequestAction",
                               ![i].data = filteredArgs.data,
                               ![i].config = filteredArgs.config,
                               ![i].hooks = Append(c.hooks, "preRequestAction"),
                               ![i].log = c.log \o logged]
     /\ UNCHANGED <<given, client, subclass, evaluated, options>>

\* The request config on its way to the adapter: the request interceptor of
\* axios-retry, where the instance has one, puts the retry state into it.
SentBy(axiosInstance, c) ==
  LET config == RequestConfigOf([axios |-> axiosInstance], c)
  IN IF Has(axiosInstance, "retryOptions")
     THEN setCurrentState(config, axiosInstance.retryOptions)
     ELSE config

\* dispatchEnableRetry always on the shared instance.
dispatchEnableRetryShared(i) ==
  LET c == calls[i]
  IN /\ c.pc = "preRequestAction"
     /\ calls' = [calls EXCEPT ![i].pc = "inflight",
                               ![i].axiosInstance = client.axios,
                               ![i].sent = SentBy(client.axios, c),
                               ![i].attempts = 1]
     /\ UNCHANGED <<given, client, subclass, evaluated, options>>

\* _request resumes after preRequestAction, chooses the instance and calls
\* axiosInstance.<verb>.
dispatchEnableRetry(i) ==
  LET c == calls[i]
      axiosInstance ==
        IF Has(c.config, "axios-retry") /\ ~client.enableRetry
        THEN createNewAxiosInstanceWithRetry(client, c.config["axios-retry"])
        ELSE client.axios
  IN /\ c.pc = "preRequestAction"
     /\ calls' = [calls EXCEPT ![i].pc = "inflight",
                               ![i].axiosInstance = axiosInstance,
                               ![i].sent = SentBy(axiosInstance, c),
                               ![i].attempts = 1]
     /\ UNCHANGED <<given, client, subclass, evaluated, options>>

\* The catch of _request: errorHandler throws.
ThrownEnableRetry(c, this, error, sent) ==
  [c EXCEPT !.pc = "thrown", !.sent = sent, !.error = error,
            !.failures = c.failures + 1,
            !.result = errorHandlerEnableRetry(this, error, c.requestType, c.url),
            !.log = c.log \o errorHandlerLog(this, error, c.requestType, c.url),
            !.thrown = c.thrown + 1]

\* The attempt fails.  Without an interceptor on the instance the rejection
\* goes straight to the catch; with one, a retry is scheduled or the
\* rejection passed on.
failEnableRetry(i, shape, lastRequestDuration) ==
  LET c == calls[i]
      error == AxiosErrorOf(shape, c.sent)
      currentState == setCurrentState(c.sent, c.axiosInstance.retryOptions)["axios-retry"]
      state == Assign(currentState, "retryCount", currentState.retryCount + 1)
      config == Assign(c.sent, "axios-retry", state)
      timed == ~state.shouldResetTimeout /\ Has(config, "timeout") /\ config.timeout # 0
  IN /\ c.pc = "inflight"
     /\ IF Has(c.axiosInstance, "retryOptions") /\ Has(error, "config")
           /\ shouldRetry(currentState, error)
        THEN \E delay \in applyRetryDelayEnableRetry(currentState.retryDelay,
                                                     state.retryCount, error) :
               calls' = [calls EXCEPT ![i] =
                 IF timed /\ config.timeout - lastRequestDuration - delay <= 0
                 THEN ThrownEnableRetry(c, client, Assign(error, "config", config), config)
                 ELSE [c EXCEPT !.pc = "backoff", !.delay = delay, !.error = error,
                                !.failures = c.failures + 1,
                                !.sent = IF timed
                                         THEN Assign(config, "timeout",
                                                     config.timeout - lastRequestDuration - delay)
                                         ELSE config]]
        ELSE calls' = [calls EXCEPT ![i] = ThrownEnableRetry(c, client, error, c.sent)]
     /\ UNCHANGED <<given, client, subclass, evaluated, options>>

\* The delay has passed: the interceptor sends the request config again on
\* the instance of the call.
retryEnableRetry(i) ==
  LET c == calls[i]
  IN /\ c.pc = "backoff"
     /\ calls' = [calls EXCEPT ![i].pc = "inflight",
                               ![i].sent = setCurrentState(c.sent, c.axiosInstance.retryOptions),
                               ![i].attempts = c.attempts + 1,
                               ![i].error = Empty,
                               ![i].delay = 0]
     /\ UNCHANGED <<given, client, subclass, evaluated, options>>

NextEnableRetry ==
  \E i \in SeqCalls :
    \/ \E requestType \in {"GET", "DELETE"}, url \in Urls, config \in EnableRetryConfigs :
         _requestEnableRetry(i, requestType, url, Undefined, config)
    \/ \E requestType \in {"POST", "PUT", "PATCH"}, url \in Urls, data \in Payloads,
          config \in EnableRetryConfigs :
         _requestEnableRetry(i, requestType, url, data, config)
    \/ afterFilterEnableRetry(i)
    \/ dispatchEnableRetry(i)
    \/ \E response \in SuccessResponses : respond(i, response)
    \/ \E shape \in ConcurrentErrors, lastRequestDuration \in LastRequestDurations :
         failEnableRetry(i, shape, lastRequestDuration)
    \/ retryEnableRetry(i)
    \/ settle(i)

SpecEnableRetry == InitEnableRetry /\ [][NextEnableRetry]_vars

(***************************************************************************)
(* What the caller asked for, read off the arguments it passed.            *)
(***************************************************************************)
\* The retryConfig given to the constructor, {} when none was.
GivenRetryConfig == IF Has(given, "retryConfig") THEN given.retryConfig ELSE Empty

\* The retryConfig given with call i, {} when none was.
OverrideOf(i) == IF Has(calls[i].arg, "retryConfig") THEN calls[i].arg.retryConfig ELSE Empty

\* maxRetries of the effective policy of call i: the override's retries, else
\* the constructor's, else the default 0.
EffectiveMaxRetries(i) ==
  IF Has(OverrideOf(i), "retries") THEN OverrideOf(i).retries
  ELSE IF Has(GivenRetryConfig, "retries") THEN GivenRetryConfig.retries
  ELSE 0

\* The last failure of call i is one the retry interceptor retries: it has
\* the request config, is no abort (ECONNABORTED), and is a network error
\* (no response, an error code) or, on get, put or delete, has no response
\* or a 5xx one.
RetriedFailure(i) ==
  LET e == calls[i].error
  IN /\ Has(e, "config")
     /\ ~(Has(e, "code") /\ e.code = "ECONNABORTED")
     /\ \/ ~Has(e, "response") /\ Has(e, "code")
        \/ /\ calls[i].requestType \in {"GET", "PUT", "DELETE"}
           /\ (~Has(e, "response") \/ e.response.status \in 500..599)

\* The request of call i carries a timeout, which bounds its retries in time.
HasTimeout(i) == Has(calls[i].sent, "timeout")

(***************************************************************************)
(* C1..C5: the number of attempts.                                         *)
(***************************************************************************)
\* C1: a call whose first N attempts fail and whose attempt N+1 succeeds
\* resolves with the envelope of that response, the transport has seen
\* exactly N+1 attempts, and N is at most the effective maxRetries.
C1_SuccessAfterFailures ==
  \A i \in CallIds :
    calls[i].pc = "returned" =>
      /\ calls[i].thrown = 0
      /\ calls[i].result.request \in SuccessResponses
      /\ calls[i].result.data =
           (IF Has(calls[i].result.request, "data") THEN calls[i].result.request.data ELSE Empty)
      /\ calls[i].attempts = calls[i].failures + 1
      /\ calls[i].failures <= EffectiveMaxRetries(i)

C1_Witness ==
  \E i \in CallIds :
    /\ calls[i].pc = "returned"
    /\ calls[i].failures = 1
    /\ calls[i].attempts = 2
    /\ EffectiveMaxRetries(i) = 2

\* C2 as stated: whatever the verb and the failure, a call that fails on
\* every attempt throws once, after exactly maxRetries+1 attempts.
C2_Original ==
  \A i \in CallIds :
    calls[i].pc = "thrown" =>
      /\ calls[i].thrown = 1
      /\ calls[i].attempts = EffectiveMaxRetries(i) + 1

\* C2 amended: a call that fails on every attempt throws once; it has made
\* exactly maxRetries+1 attempts when its last failure is one the interceptor
\* retries and its request has no timeout, and at most that many otherwise.
C2_ThrowsOnceAfterRetries ==
  \A i \in CallIds :
    calls[i].pc = "thrown" =>
      /\ calls[i].thrown = 1
      /\ calls[i].failures = calls[i].attempts
      /\ calls[i].attempts <= EffectiveMaxRetries(i) + 1
      /\ (RetriedFailure(i) /\ ~HasTimeout(i) =>
            calls[i].attempts = EffectiveMaxRetries(i) + 1)

C2_Witness ==
  \E i \in CallIds :
    /\ calls[i].pc = "thrown"
    /\ RetriedFailure(i)
    /\ ~HasTimeout(i)
    /\ calls[i].attempts = 3

\* C3: a call never makes more than maxRetries+1 attempts.
C3_NeverBeyondMaxRetries ==
  \A i \in CallIds : calls[i].attempts <= EffectiveMaxRetries(i) + 1

C3_Witness ==
  \E i \in CallIds :
    /\ EffectiveMaxRetries(i) = 2
    /\ calls[i].attempts = 3
    /\ calls[i].pc = "inflight"

ClientErrorStatus(i) ==
  /\ Has(calls[i].error, "response")
  /\ calls[i].error.response.status \in 400..499

\* C5: a 4xx response is not retried: the call throws at that attempt, and
\* at the first attempt when the first response is the 4xx, whatever retries.
C5_NoRetryOnClientError ==
  \A i \in CallIds :
    ClientErrorStatus(i) =>
      /\ calls[i].pc = "thrown"
      /\ calls[i].thrown = 1
      /\ calls[i].attempts = calls[i].failures
      /\ (calls[i].failures = 1 => calls[i].attempts = 1)

C5_Witness ==
  \E i \in CallIds :
    /\ ClientErrorStatus(i)
    /\ calls[i].requestType = "GET"
    /\ EffectiveMaxRetries(i) = 2
    /\ calls[i].pc = "thrown"
    /\ calls[i].attempts = 1

(***************************************************************************)
(* C6..C9: the effective policy of a call.                                 *)
(***************************************************************************)
\* The policy of a client constructed without retryConfig.
DefaultPolicy == [retries |-> 0, backoff |-> "exponential", delayFactor |-> 500]

\* The effective policy of call i, read off the arguments: the override's
\* fields over the constructor's over the defaults.
EffectivePolicy(i) == Spread(Spread(DefaultPolicy, GivenRetryConfig), OverrideOf(i))

\* The retry state the interceptor keeps for the request of call i.
RetryState(i) == calls[i].sent["axios-retry"]

\* Call i has reached the transport.
Dispatched(i) == calls[i].sent # Empty

\* A retryDelay function the caller wrote decides the delays of call i: the
\* override's, or the constructor's when the override names neither backoff
\* nor delayFactor.
CustomDelayInForce(i) ==
  \/ Has(OverrideOf(i), "retryDelay")
  \/ /\ Has(GivenRetryConfig, "retryDelay")
     /\ ~Has(OverrideOf(i), "backoff")
     /\ ~Has(OverrideOf(i), "delayFactor")

\* The delays the effective policy of call i allows before its next retry.
PolicyDelays(i) ==
  getRetryDelay(RetryState(i).retryCount, calls[i].error,
                EffectivePolicy(i).backoff, EffectivePolicy(i).delayFactor)

\* C6: the retries of the policy a call runs under are the override's when
\* the override names retries, 0 included, and the client's otherwise.
C6_OverrideRetriesWin ==
  \A i \in CallIds :
    Dispatched(i) =>
      RetryState(i).retries =
        (IF Has(OverrideOf(i), "retries") THEN OverrideOf(i).retries
         ELSE client.retryConfig.retries)

C6_Witness ==
  \E i \in CallIds :
    /\ Has(OverrideOf(i), "retries")
    /\ OverrideOf(i).retries = 0
    /\ client.retryConfig.retries = 2
    /\ calls[i].pc = "thrown"
    /\ RetriedFailure(i)
    /\ RetryState(i).retries = 0
    /\ calls[i].attempts = 1

\* C7: for a call with an override, every field of the override replaces the
\* client's and every other field is the client's, and the delay before a
\* retry is the one of the merged backoff and delayFactor (where no retryDelay
\* function of the caller decides it).
C7_FieldByFieldMerge ==
  \A i \in CallIds :
    Has(calls[i].arg, "retryConfig") /\ Dispatched(i) =>
      /\ \A k \in {"retries", "backoff", "delayFactor", "onRetry", "retryDelay"} :
           Has(OverrideOf(i), k) => RetryState(i)[k] = OverrideOf(i)[k]
      /\ \A k \in {"retries", "backoff", "delayFactor", "onRetry"} :
           ~Has(OverrideOf(i), k) => RetryState(i)[k] = client.retryConfig[k]
      /\ \A k \in {"retries", "backoff", "delayFactor"} :
           RetryState(i)[k] = EffectivePolicy(i)[k]
      /\ (calls[i].pc = "backoff" /\ ~CustomDelayInForce(i) =>
            calls[i].delay \in PolicyDelays(i))

C7_Witness ==
  \E i \in CallIds :
    /\ calls[i].pc = "backoff"
    /\ Has(OverrideOf(i), "backoff")
    /\ ~Has(OverrideOf(i), "delayFactor")
    /\ ~Has(OverrideOf(i), "retries")
    /\ ~CustomDelayInForce(i)
    /\ Has(GivenRetryConfig, "delayFactor")
    /\ Has(GivenRetryConfig, "backoff")
    /\ GivenRetryConfig.backoff # OverrideOf(i).backoff
    /\ RetryState(i).retryCount = 2
    /\ calls[i].delay = GivenRetryConfig.delayFactor

\* C8: no call changes the client: its baseURL, axiosConfig, debug,
\* debugLevel, name, retryConfig and transport instance stay what the
\* constructor made of the options.
C8_ClientNeverMutated ==
  /\ client = constructor(given)
  /\ client.axios.instance = "shared"
  /\ client.axios.retryOptions = client.retryConfig

C8_Witness ==
  \E i \in CallIds :
    /\ Has(OverrideOf(i), "retries")
    /\ Has(OverrideOf(i), "backoff")
    /\ Has(OverrideOf(i), "delayFactor")
    /\ OverrideOf(i).retries # client.retryConfig.retries
    /\ calls[i].pc = "thrown"
    /\ calls[i].attempts = 3
    /\ client = constructor(given)

\* Call i is between its dispatch and its outcome.
InFlight(i) == calls[i].pc \in {"inflight", "backoff"}

\* C9: with calls in flight together, each call runs under its own effective
\* policy: its retries, backoff and delayFactor are those of its own
\* arguments, its attempts stay within its own maxRetries+1 and reach it
\* when every attempt fails retriably, and its delays are its own policy's.
C9_NoCrossCallLeakage ==
  \A i \in CallIds :
    /\ calls[i].attempts <= EffectiveMaxRetries(i) + 1
    /\ Dispatched(i) =>
         /\ \A k \in {"retries", "backoff", "delayFactor"} :
              RetryState(i)[k] = EffectivePolicy(i)[k]
         /\ RetryState(i).retryCount = calls[i].attempts - (IF calls[i].pc = "backoff" THEN 0 ELSE 1)
         /\ (calls[i].pc = "backoff" => calls[i].delay \in PolicyDelays(i))
         /\ (calls[i].pc = "thrown" /\ RetriedFailure(i) =>
               calls[i].attempts = EffectiveMaxRetries(i) + 1)

\* Two calls in flight together, one with retries 0 and one with retries
\* MaxRetries, the second on its last retry.
C9_Witness ==
  \E i, j \in CallIds :
    /\ i # j
    /\ calls[i].pc = "thrown"
    /\ RetriedFailure(i)
    /\ EffectiveMaxRetries(i) = 0
    /\ calls[i].attempts = 1
    /\ calls[j].pc = "backoff"
    /\ EffectiveMaxRetries(j) = MaxRetries
    /\ calls[j].attempts = MaxRetries
    /\ calls[j].delay = 300
    /\ client.retryConfig.retries = 1

(***************************************************************************)
(* C10: the error thrown for a response with a status and a message.       *)
(***************************************************************************)
\* The text s occurs in the message; the empty text occurs in every text.
Embeds(message, s) == s = "" \/ \E k \in 1..Len(message) : message[k] = s

\* C10: a failure whose response has a status and a body with a message
\* field is thrown as an ApiResponseError with that status, that body as
\* response, and a message holding the client's name, the method, the url,
\* the status and the body's message.
C10_ApiResponseError ==
  \A i \in CallIds :
    LET e == calls[i].error
        r == calls[i].result
    IN calls[i].pc = "thrown" /\ Has(e, "response") /\ Has(e.response, "status")
         /\ Has(e.response, "data") /\ Has(e.response.data, "message") =>
           /\ r.type = "ApiResponseError"
           /\ r.status = e.response.status
           /\ r.response = e.response.data
           /\ Embeds(r.message, client.name)
           /\ Embeds(r.message, calls[i].requestType)
           /\ Embeds(r.message, calls[i].url)
           /\ Embeds(r.message, ToString(e.response.status))
           /\ Embeds(r.message, e.response.data.message)

C10_Witness ==
  \E i \in CallIds :
    /\ calls[i].pc = "thrown"
    /\ calls[i].requestType = "GET"
    /\ calls[i].result.type = "ApiResponseError"
    /\ calls[i].result.status = 404
    /\ calls[i].result.response = [message |-> "Not Found"]
    /\ calls[i].result.message =
         <<"[", "CustomClient", "] ", "GET", " ", "/test", " : [", "404", "] ", "Not Found">>

(***************************************************************************)
(* C11..C15: the error thrown for each shape of failure.                   *)
(***************************************************************************)
\* The failure call i was thrown for carries a response with a status.
ResponseFailure(i) ==
  /\ calls[i].pc = "thrown"
  /\ Has(calls[i].error, "response")
  /\ Has(calls[i].error.response, "status")

\* C11: a failure whose response has a status and a non-empty body without a
\* message field is thrown as an ApiResponseError with that status and body,
\* its message ending at the status.
C11_BodyWithoutMessage ==
  \A i \in CallIds :
    LET e == calls[i].error
        r == calls[i].result
    IN ResponseFailure(i) /\ Has(e.response, "data") /\ e.response.data # Empty
         /\ ~Has(e.response.data, "message") =>
           /\ r.type = "ApiResponseError"
           /\ r.status = e.response.status
           /\ r.response = e.response.data
           /\ r.message = <<"[", client.name, "] ", calls[i].requestType, " ", calls[i].url,
                            " : [", ToString(e.response.status), "]">>

C11_Witness ==
  \E i \in CallIds :
    /\ ResponseFailure(i)
    /\ Has(calls[i].error.response, "data")
    /\ calls[i].error.response.data = [errors |-> "Invalid input"]
    /\ calls[i].result.type = "ApiResponseError"
    /\ calls[i].result.status = 404
    /\ calls[i].result.response = [errors |-> "Invalid input"]
    /\ Len(calls[i].result.message) = 9

\* C12: a failure whose response has a status is thrown as an
\* ApiResponseError with the status and the body of the response, whatever
\* the body, an absent one included.
C12_EveryResponseIsApiResponseError ==
  \A i \in CallIds :
    LET e == calls[i].error
        r == calls[i].result
    IN ResponseFailure(i) =>
         /\ r.type = "ApiResponseError"
         /\ r.status = e.response.status
         /\ (Has(e.response, "data") => r.response = e.response.data)

\* C13: a failure with an outgoing request and no response is thrown as an
\* Error whose message holds the client's name, the method, the url, the
\* '[no response]' qualifier and the failure's message, and whose cause is
\* the failure.
C13_NoResponseError ==
  \A i \in CallIds :
    LET e == calls[i].error
        r == calls[i].result
    IN calls[i].pc = "thrown" /\ ~Has(e, "response") /\ Has(e, "request") =>
         /\ r.type = "Error"
         /\ r.message = <<"[", client.name, "] ", calls[i].requestType, " ", calls[i].url,
                          " [no response] : ", e.message>>
         /\ Has(r, "cause")
         /\ r.cause = e

C13_Witness ==
  \E i \in CallIds :
    /\ calls[i].pc = "thrown"
    /\ ~Has(calls[i].error, "response")
    /\ Has(calls[i].error, "request")
    /\ calls[i].error.code = "ECONNABORTED"
    /\ calls[i].result.message[Len(calls[i].result.message)] = "timeout exceeded"
    /\ calls[i].result.cause = calls[i].error
    /\ Has(calls[i].result.cause, "config")

\* C14: a failure with neither response nor outgoing request is thrown as an
\* Error whose message holds the client's name, the method, the url and the
\* failure's message, without qualifier, and whose cause is the failure, also
\* when the failure has no message.
C14_RequestSetupError ==
  \A i \in CallIds :
    LET e == calls[i].error
        r == calls[i].result
    IN calls[i].pc = "thrown" /\ ~Has(e, "response") /\ ~Has(e, "request") =>
         /\ r.type = "Error"
         /\ r.message = <<"[", client.name, "] ", calls[i].requestType, " ", calls[i].url,
                          " : ", MessageText(e)>>
         /\ Has(r, "cause")
         /\ r.cause = e

\* C15: the cause of every thrown error is the failure itself.
C15_CauseIsOriginalError ==
  \A i \in CallIds :
    calls[i].pc = "thrown" =>
      /\ Has(calls[i].result, "cause")
      /\ calls[i].result.cause = calls[i].error

(***************************************************************************)
(* C16..C19: what the caller gets for a failed call.                       *)
(***************************************************************************)
\* C16: a call whose last attempt failed and is not retried has thrown, once,
\* an error of errorHandler; a call that returned an envelope threw nothing
\* and its last attempt succeeded.
C16_FailureIsThrownOnce ==
  \A i \in CallIds :
    /\ calls[i].thrown <= 1
    /\ (calls[i].attempts > 0 /\ calls[i].failures = calls[i].attempts
          /\ calls[i].pc # "backoff" =>
            /\ calls[i].pc = "thrown"
            /\ calls[i].thrown = 1
            /\ calls[i].result.type \in {"ApiResponseError", "Error"}
            /\ calls[i].result = errorHandler(client, calls[i].error, calls[i].requestType,
                                              calls[i].url))
    /\ (calls[i].pc = "returned" =>
            /\ calls[i].thrown = 0
            /\ calls[i].failures = calls[i].attempts - 1
            /\ calls[i].result.request \in SuccessResponses)

C16_Witness ==
  \E i \in CallIds :
    /\ calls[i].pc = "thrown"
    /\ calls[i].attempts = 3
    /\ calls[i].failures = 3
    /\ calls[i].thrown = 1
    /\ calls[i].result.type = "ApiResponseError"

\* The thrown error r is one of the three typed errors for the failure e: an
\* ApiResponseError with the status and body of the response, or an Error
\* that carries the failure as its cause.
TypedError(r, e) ==
  \/ /\ r.type = "ApiResponseError"
     /\ Has(e, "response")
     /\ r.status = e.response.status
  \/ /\ r.type = "Error"
     /\ Has(r, "cause")
     /\ r.cause = e

\* C17: a failure is thrown as one of the three typed errors, or else the
\* caller gets the failure itself, the same value.
C17_TypedOrOriginal ==
  \A i \in CallIds :
    calls[i].pc = "thrown" =>
      \/ TypedError(calls[i].result, calls[i].error)
      \/ calls[i].result = calls[i].error

\* The kind of a failure: the server answered, nothing came back, or the
\* request was never sent.
FailureKind(e) ==
  IF Has(e, "response") THEN "response"
  ELSE IF Has(e, "request") THEN "noResponse"
  ELSE "setup"

\* What a caller can tell a thrown error by without reading its text: its
\* class, the '[no response]' qualifier of its message, and whether it has a
\* cause.
Discriminator(r) ==
  <<r.type,
    \E k \in 1..Len(r.message) : r.message[k] = " [no response] : ",
    Has(r, "cause")>>

\* C18: the error thrown for a failure differs, in what a caller can tell it
\* by, from the error thrown for any failure of another kind.
C18_KindsDistinguishable ==
  \A i \in CallIds :
    calls[i].pc = "thrown" =>
      \A shape \in TransportErrors :
        LET other == AxiosErrorOf(shape, calls[i].sent)
        IN FailureKind(other) # FailureKind(calls[i].error) =>
             Discriminator(errorHandler(client, other, calls[i].requestType, calls[i].url))
               # Discriminator(calls[i].result)

\* The settings of debug and debugLevel.
DebugSettings == {[debug |-> d, debugLevel |-> l] : d \in BOOLEAN, l \in {"normal", "verbose"}}

\* C19: the error thrown for a failure is the one errorHandler throws under
\* every setting of debug and debugLevel, and it is never the error of a
\* failed logging step; with debug on, the failure has been logged.
C19_LoggingDoesNotInterfere ==
  \A i \in CallIds :
    calls[i].pc = "thrown" =>
      /\ calls[i].result.type # "TypeError"
      /\ \A d \in DebugSettings :
           errorHandler([client EXCEPT !.debug = d.debug, !.debugLevel = d.debugLevel],
                        calls[i].error, calls[i].requestType, calls[i].url)
             = calls[i].result
      /\ (client.debug => Len(calls[i].log) >= 2)

C19_Witness ==
  \E i \in CallIds :
    /\ calls[i].pc = "thrown"
    /\ client.debug
    /\ client.debugLevel = "verbose"
    /\ ~Has(calls[i].error, "response")
    /\ Has(calls[i].error, "request")
    /\ calls[i].attempts = 2
    /\ Len(calls[i].log) = 4
    /\ \E d \in calls[i].log[4].dump : d.circular
    /\ calls[i].result.cause = calls[i].error

(***************************************************************************)
(* C20: the hooks.                                                         *)
(***************************************************************************)
\* C20: the hooks a call has run are preRequestFilter, then
\* preRequestAction, each once, both before the first attempt, and a retry
\* runs neither again.
C20_HooksOnceBeforeDispatch ==
  \A i \in CallIds :
    /\ (calls[i].attempts >= 1 =>
          calls[i].hooks = <<"preRequestFilter", "preRequestAction">>)
    /\ (calls[i].pc = "preRequestFilter" =>
          calls[i].hooks = <<"preRequestFilter">> /\ calls[i].attempts = 0)
    /\ (calls[i].pc = "preRequestAction" =>
          calls[i].hooks = <<"preRequestFilter", "preRequestAction">> /\ calls[i].attempts = 0)
    /\ (calls[i].pc = "idle" => calls[i].hooks = <<>>)

C20_Witness ==
  \E i \in CallIds :
    /\ calls[i].pc = "inflight"
    /\ calls[i].attempts = 3
    /\ calls[i].hooks = <<"preRequestFilter", "preRequestAction">>

(***************************************************************************)
(* C21..C23: the hooks of an extending class.                              *)
(***************************************************************************)
\* What the filter fn returns for call i: it is given the caller's payload
\* and the caller's config after the retryConfig merge.
FilterResult(fn, i) ==
  applyFilter(fn, calls[i].requestType, calls[i].url, calls[i].argData,
              mergeRetryConfig(client, calls[i].arg))

\* The request of call i carries the payload.
HasPayload(i) == calls[i].requestType \in {"POST", "PUT", "PATCH"}

\* The transport got every key of config, the retry state apart, with the
\* value config has.
DispatchedConfig(i, config) ==
  \A k \in DOMAIN config \ {"axios-retry"} :
    Has(calls[i].sent, k) /\ calls[i].sent[k] = config[k]

\* C21 as stated: the payload and the config the transport gets are those
\* the overriding preRequestFilter returned, whatever it returned; a filter
\* that returns no payload has none dispatched.
C21_Original ==
  \A i \in CallIds :
    Dispatched(i) /\ Has(subclass, "preRequestFilter") =>
      LET ret == FilterResult(subclass.preRequestFilter, i)
      IN /\ (HasPayload(i) =>
               calls[i].sent.data = (IF Has(ret, "data") THEN ret.data ELSE Undefined))
         /\ (Has(ret, "config") => DispatchedConfig(i, ret.config))

\* C21 amended: the transport gets the payload and the config the overriding
\* preRequestFilter returned, each where the filter returned one (any value
\* but null and undefined, '' included), and the caller's own where it
\* returned none.
C21_FilterResultDispatched ==
  \A i \in CallIds :
    Dispatched(i) /\ Has(subclass, "preRequestFilter") =>
      LET ret == FilterResult(subclass.preRequestFilter, i)
      IN /\ (HasPayload(i) =>
               calls[i].sent.data = (IF Has(ret, "data") THEN ret.data ELSE calls[i].argData))
         /\ DispatchedConfig(i, IF Has(ret, "config") THEN ret.config
                                ELSE mergeRetryConfig(client, calls[i].arg))

C21_Witness ==
  \E i \in CallIds :
    /\ Dispatched(i)
    /\ Has(subclass, "preRequestFilter")
    /\ subclass.preRequestFilter.kind = "modify"
    /\ calls[i].requestType = "POST"
    /\ calls[i].argData = "payload"
    /\ calls[i].sent.data = ""
    /\ Has(calls[i].sent, "headers")
    /\ ~Has(calls[i].arg, "headers")
    /\ calls[i].pc = "returned"

\* C22: the policy a call runs under is resolved from the config the filter
\* returned: the retryConfig in that config, over the client's, gives the
\* retries, the backoff and the delayFactor of the call, and its delays.
C22_PolicyFromFilteredConfig ==
  \A i \in CallIds :
    Dispatched(i) /\ Has(subclass, "preRequestFilter") =>
      LET ret == FilterResult(subclass.preRequestFilter, i)
          override == IF Has(ret, "config") /\ Has(ret.config, "retryConfig")
                      THEN ret.config.retryConfig ELSE OverrideOf(i)
          policy == Spread(client.retryConfig, override)
      IN /\ \A k \in {"retries", "backoff", "delayFactor"} : RetryState(i)[k] = policy[k]
         /\ (calls[i].pc = "backoff" =>
               calls[i].delay \in getRetryDelay(RetryState(i).retryCount, calls[i].error,
                                                policy.backoff, policy.delayFactor))

\* C23: a class that overrides only beforeRequestFilter has the payload and
\* the config that hook returns dispatched, and one that overrides only
\* beforeRequestAction has that hook run before the request is sent.
C23_DeprecatedHooksInvoked ==
  \A i \in CallIds :
    Dispatched(i) =>
      /\ (Has(subclass, "beforeRequestFilter") =>
            LET ret == FilterResult(subclass.beforeRequestFilter, i)
            IN /\ (HasPayload(i) => calls[i].sent.data = ret.data)
               /\ DispatchedConfig(i, ret.config))
      /\ (Has(subclass, "beforeRequestAction") =>
            \E k \in 1..Len(calls[i].log) :
              <<calls[i].log[k]>> = customAction(calls[i].requestType, calls[i].url))

(***************************************************************************)
(* Backoff.                                                                *)
(***************************************************************************)
\* The delays getRetryDelay returned for the arguments of `evaluated`.
Returned == {evaluated.returned[k] : k \in 1..Len(evaluated.returned)}

\* C24: with the exponential strategy, for every attempt >= 1 and every
\* positive delayFactor, the delay before retry number attempt equals
\* delayFactor * 2^(attempt-1), and it is strictly smaller than the delay
\* before retry number attempt + 1.
C24_ExponentialDelay ==
  (evaluated.backoff = "exponential" /\ evaluated.retryCount >= 1 /\ evaluated.delayFactor > 0)
    => /\ \A d \in Returned : d = evaluated.delayFactor * 2 ^ (evaluated.retryCount - 1)
       /\ \A d \in Returned :
            \A next \in getRetryDelay(evaluated.retryCount + 1, evaluated.error,
                                      evaluated.backoff, evaluated.delayFactor) : d < next

\* C25 as stated: with the linear strategy, for every attempt >= 1, every
\* delayFactor and every error, the delay equals delayFactor * attempt.
C25_Original ==
  (evaluated.backoff = "linear" /\ evaluated.retryCount >= 1)
    => \A d \in Returned : d = evaluated.delayFactor * evaluated.retryCount

\* C25: with the linear strategy, for every attempt >= 1, every delayFactor
\* and every error, the delay equals delayFactor * attempt, unless the
\* error's response carries a Retry-After longer than that: then the delay
\* is the Retry-After.
C25_LinearDelay ==
  (evaluated.backoff = "linear" /\ evaluated.retryCount >= 1)
    => \A d \in Returned :
         IF retryAfter(evaluated.error) > evaluated.delayFactor * evaluated.retryCount
         THEN d = evaluated.error.response.retryAfter
         ELSE d = evaluated.delayFactor * evaluated.retryCount

C25_Witness ==
  /\ evaluated.backoff = "linear"
  /\ evaluated.retryCount = 1
  /\ evaluated.delayFactor = 500
  /\ Has(evaluated.error, "response")
  /\ Has(evaluated.error.response, "retryAfter")
  /\ evaluated.returned = <<1500, 1500>>

\* C26: with the none strategy, the delay before every retry equals the
\* configured delayFactor, whatever the attempt number and the error.
C26_NoneDelayIsFactor ==
  evaluated.backoff = "none" => \A d \in Returned : d = evaluated.delayFactor

C26_Witness ==
  /\ evaluated.backoff = "none"
  /\ evaluated.retryCount = MaxRetries
  /\ retryAfter(evaluated.error) > evaluated.delayFactor
  /\ evaluated.returned # <<>>
  /\ evaluated.returned[1] = 500

C28_AttemptZeroFailsFast ==
  evaluated.retryCount = 0 /\ evaluated.backoff # "" => evaluated.returned = <<>>

(***************************************************************************)
(* C29: the attempts of one call follow one another.                       *)
(***************************************************************************)
\* The attempts of call i that are at the transport.
AttemptsInFlight(i) == calls[i].attempts - calls[i].failures

\* C29: at most one attempt of a call is in flight at any time, and attempt
\* k+1 is issued only when attempt k has failed, retry k has been counted
\* and its delay computed by the call's own policy, and the call has waited
\* in its backoff; no step of one call touches another call.
C29_RetriesSequential ==
  [][\A i \in CallIds :
       /\ AttemptsInFlight(i)' \in {0, 1}
       /\ (calls'[i].pc = "backoff" => AttemptsInFlight(i)' = 0)
       /\ (calls'[i].attempts > calls[i].attempts /\ calls[i].attempts >= 1)
            => /\ calls'[i].attempts = calls[i].attempts + 1
               /\ calls[i].pc = "backoff"
               /\ calls[i].failures = calls[i].attempts
               /\ calls[i].error # Empty
               /\ RetryState(i).retryCount = calls[i].attempts
               /\ calls[i].delay \in PolicyDelays(i)
               /\ calls'[i].pc = "inflight"
       /\ calls'[i] # calls[i] => \A j \in CallIds \ {i} : calls'[j] = calls[j]]_vars

\* Two calls retry side by side: the first has its second attempt out while
\* the second, which failed once too, still waits for its delay.
C29_Witness ==
  \E i, j \in CallIds :
    /\ i # j
    /\ calls[i].pc = "inflight"
    /\ calls[i].attempts = 2
    /\ calls[i].failures = 1
    /\ calls[j].pc = "backoff"
    /\ calls[j].attempts = 1
    /\ calls[j].failures = 1
    /\ calls[j].delay = 200

(***************************************************************************)
(* C30: a partial retryConfig given to the constructor.                    *)
(***************************************************************************)
\* The backoff and the delayFactor in force for a client: the ones given to
\* the constructor, the defaults for the ones left out.
GivenBackoff ==
  IF Has(GivenRetryConfig, "backoff") THEN GivenRetryConfig.backoff ELSE "exponential"

GivenDelayFactor ==
  IF Has(GivenRetryConfig, "delayFactor") THEN GivenRetryConfig.delayFactor ELSE 500

BodyOf(response) == IF Has(response, "data") THEN response.data ELSE Empty

\* C31: whatever the verb, a call resolves only on the success of the
\* attempt in flight, with an envelope of two fields: the transport response
\* of that attempt and, as data, the body of that response.
C31_SuccessEnvelope ==
  [][\A i \in CallIds :
       (calls'[i].pc = "returned" /\ calls[i].pc # "returned")
         => /\ calls[i].pc = "inflight"
            /\ calls[i].requestType \in RequestType
            /\ calls'[i].attempts = calls[i].attempts
            /\ calls'[i].failures = calls[i].attempts - 1
            /\ DOMAIN calls'[i].result = {"request", "data"}
            /\ calls'[i].result.request \in SuccessResponses
            /\ calls'[i].result.data = BodyOf(calls'[i].result.request)
            /\ calls'[i].thrown = 0]_vars

\* A delete resolves on its second attempt with the body of the response.
C31_Witness ==
  \E i \in CallIds :
    /\ calls[i].pc = "returned"
    /\ calls[i].requestType = "DELETE"
    /\ calls[i].attempts = 2
    /\ calls[i].result = [request |-> [status |-> 200, data |-> [success |-> TRUE]],
                          data |-> [success |-> TRUE]]

(***************************************************************************)
(* C32: the enableRetry variant.                                           *)
(***************************************************************************)
\* Call i brought an 'axios-retry' config of its own.
HasOverride(i) == Has(calls[i].arg, "axios-retry")

\* Call i has had a failed attempt retried, or is about to.
Retried(i) == calls[i].attempts > 1 \/ calls[i].pc = "backoff"

\* The instance of a dispatched call and its policy, for a call that is on
\* an instance of its own exactly when `fresh` holds.
OnInstance(i, fresh) ==
  IF fresh
  THEN /\ calls[i].axiosInstance.instance = "fresh"
       /\ calls[i].axiosInstance.retryOptions =
            Spread(client.retryConfig, calls[i].arg["axios-retry"])
       /\ RetryState(i).retries =
            (IF Has(calls[i].arg["axios-retry"], "retries")
             THEN calls[i].arg["axios-retry"].retries ELSE client.retryConfig.retries)
  ELSE calls[i].axiosInstance = client.axios

\* C32 as stated: a failed attempt is retried only with enableRetry or an
\* override; without either a call makes one attempt; a call with an
\* override is dispatched on an instance of its own, whose policy is the
\* client's retryConfig with the override over it; every other call is
\* dispatched on the shared instance.
C32_Original ==
  \A i \in CallIds :
    /\ Retried(i) => client.enableRetry \/ HasOverride(i)
    /\ (~client.enableRetry /\ ~HasOverride(i)) => calls[i].attempts <= 1
    /\ Dispatched(i) => OnInstance(i, HasOverride(i))

\* C32: as C32_Original, but the instance of its own is given to a call
\* with an override only on a client without enableRetry; with enableRetry
\* the call is dispatched on the shared instance, whose interceptor takes
\* the override from the request config.
C32_FreshInstanceOnlyWithoutEnableRetry ==
  \A i \in CallIds :
    /\ Retried(i) => client.enableRetry \/ HasOverride(i)
    /\ (~client.enableRetry /\ ~HasOverride(i)) => calls[i].attempts <= 1
    /\ (calls[i].pc = "thrown" /\ ~client.enableRetry /\ ~HasOverride(i))
         => calls[i].attempts = 1
    /\ Dispatched(i) =>
         /\ OnInstance(i, HasOverride(i) /\ ~client.enableRetry)
         /\ (HasOverride(i) /\ client.enableRetry)
              => RetryState(i).retries =
                   (IF Has(calls[i].arg["axios-retry"], "retries")
                    THEN calls[i].arg["axios-retry"].retries
                    ELSE client.retryConfig.retries)

\* A client without enableRetry and with retries 0: a call with an override
\* of retries 2 is on an instance of its own and about to be retried.
C32_Witness ==
  \E i \in CallIds :
    /\ ~client.enableRetry
    /\ client.retryConfig.retries = 0
    /\ HasOverride(i)
    /\ calls[i].arg["axios-retry"] = [retries |-> 2]
    /\ calls[i].axiosInstance # Empty
    /\ calls[i].axiosInstance.instance = "fresh"
    /\ calls[i].pc = "backoff"
    /\ calls[i].attempts = 2

(***************************************************************************)
(* C33: what each verb method hands to the transport.                      *)
(***************************************************************************)
\* C33: the request at the transport has the verb of the method called and
\* the url given; it has a payload, the one given, exactly for post, put and
\* patch; every transport option of the call's config is in it unchanged.
C33_VerbDispatch ==
  \A i \in CallIds :
    Dispatched(i) =>
      /\ calls[i].sent.method = MethodOf(calls[i].requestType)
      /\ calls[i].sent.url = calls[i].url
      /\ Has(calls[i].sent, "data") <=> calls[i].requestType \in {"POST", "PUT", "PATCH"}
      /\ Has(calls[i].sent, "data") => calls[i].sent.data = calls[i].argData
      /\ calls[i].requestType \in {"GET", "DELETE"} => calls[i].argData = Undefined
      /\ \A k \in DOMAIN calls[i].arg \ {"retryConfig"} :
           Has(calls[i].sent, k) /\ calls[i].sent[k] = calls[i].arg[k]

\* A put with params is at the transport.
C33_Witness ==
  \E i \in CallIds :
    /\ Dispatched(i)
    /\ calls[i].pc = "inflight"
    /\ calls[i].requestType = "PUT"
    /\ calls[i].arg = [params |-> "foo=bar"]
    /\ calls[i].sent.method = "put"
    /\ calls[i].sent.data = "payload"
    /\ calls[i].sent.params = "foo=bar"

(***************************************************************************)
(* C34: which delay function a call with an override runs under.           *)
(***************************************************************************)
\* The retryDelay function C34 names for call i: the override's own, else
\* the one derived from backoff and delayFactor when the override has one
\* of the two, else the client's.
DelayFunctionByPrecedence(i) ==
  IF Has(OverrideOf(i), "retryDelay") THEN OverrideOf(i).retryDelay
  ELSE IF Has(OverrideOf(i), "backoff") \/ Has(OverrideOf(i), "delayFactor")
       THEN [kind |-> "_request"]
       ELSE client.retryConfig.retryDelay

\* The delays that function allows before the next retry of call i.
DelaysByPrecedence(i) ==
  IF Has(OverrideOf(i), "retryDelay") THEN {OverrideOf(i).retryDelay.delay}
  ELSE IF Has(OverrideOf(i), "backoff") \/ Has(OverrideOf(i), "delayFactor")
       THEN getRetryDelay(RetryState(i).retryCount, calls[i].error,
                          IF Has(OverrideOf(i), "backoff") THEN OverrideOf(i).backoff
                          ELSE client.retryConfig.backoff,
                          IF Has(OverrideOf(i), "delayFactor") THEN OverrideOf(i).delayFactor
                          ELSE client.retryConfig.delayFactor)
       ELSE IF Has(GivenRetryConfig, "retryDelay") THEN {GivenRetryConfig.retryDelay.delay}
            ELSE getRetryDelay(RetryState(i).retryCount, calls[i].error,
                               client.retryConfig.backoff, client.retryConfig.delayFactor)

\* C34: the delay function of a call with an override is the override's
\* retryDelay if it has one, else the one derived from backoff and
\* delayFactor if the override has one of the two, else the client's, a
\* custom one included; the delay before each retry is that function's.
C34_DelayFunctionPrecedence ==
  \A i \in CallIds :
    (Has(calls[i].arg, "retryConfig") /\ Dispatched(i)) =>
      /\ RetryState(i).retryDelay = DelayFunctionByPrecedence(i)
      /\ calls[i].pc = "backoff" => calls[i].delay \in DelaysByPrecedence(i)

\* The client was given a retryDelay of its own and the override a backoff
\* and a delayFactor: the retry waits the override's 300 ms, not the 100 ms
\* of the client's function.
C34_Witness ==
  \E i \in CallIds :
    /\ Has(GivenRetryConfig, "retryDelay")
    /\ Has(OverrideOf(i), "backoff")
    /\ Has(OverrideOf(i), "delayFactor")
    /\ ~Has(OverrideOf(i), "retryDelay")
    /\ calls[i].pc = "backoff"
    /\ calls[i].delay = 300

(***************************************************************************)
(* C35: every call ends.                                                   *)
(***************************************************************************)
\* Call i has been made and the caller has no outcome yet.
Pending(i) == calls[i].pc \in {"preRequestFilter", "preRequestAction", "inflight", "backoff"}

\* C35: with the continuations run, the timers fired and every attempt
\* answered, a call that was made ends, resolved with an envelope or thrown,
\* and it never has more attempts than its maxRetries + 1.
C35_EveryCallTerminates ==
  \A i \in SeqCalls :
    /\ [](calls[i].attempts <= EffectiveMaxRetries(i) + 1)
    /\ Pending(i) ~> (calls[i].pc \in {"returned", "thrown"})

\* A post that failed on a network error MaxRetries + 1 times has thrown.
C35_Witness ==
  \E i \in SeqCalls :
    /\ calls[i].pc = "thrown"
    /\ calls[i].requestType = "POST"
    /\ calls[i].attempts = MaxRetries + 1
    /\ calls[i].failures = MaxRetries + 1
    /\ Has(calls[i].error, "code")
    /\ calls[i].error.code = "ERR_NETWORK"

(***************************************************************************)
(* C36, C37: an errorHandler that returns, and hooks that throw.           *)
(***************************************************************************)
\* C36: a call resolves with an envelope only when its last attempt
\* succeeded, and a call whose dispatch failed for good has thrown, also
\* under an errorHandler of an extending class that returns normally.
C36_NoEnvelopeWithoutResponse ==
  \A i \in CallIds :
    /\ calls[i].pc = "returned"
         => /\ calls[i].attempts = calls[i].failures + 1
            /\ calls[i].result.request \in SuccessResponses
            /\ calls[i].thrown = 0
    /\ (calls[i].attempts >= 1 /\ calls[i].failures = calls[i].attempts
        /\ calls[i].pc # "backoff")
         => /\ calls[i].pc = "thrown"
            /\ calls[i].thrown = 1
            /\ ~Has(calls[i].result, "request")

\* The errorHandler of the class returns; the get failed with a 404 and the
\* call is rejected with the TypeError of `req!.data`.
C36_Witness ==
  \E i \in CallIds :
    /\ Has(subclass, "errorHandler")
    /\ subclass.errorHandler.kind = "returns"
    /\ calls[i].pc = "thrown"
    /\ calls[i].requestType = "GET"
    /\ Has(calls[i].error, "response")
    /\ calls[i].result.type = "TypeError"

\* A hook of the class of call i throws.
HookThrows(i) ==
  \/ Has(subclass, "preRequestFilter") /\ Throws(subclass.preRequestFilter)
  \/ Has(subclass, "preRequestAction") /\ Throws(subclass.preRequestAction)

\* C37: when preRequestFilter or preRequestAction throws, the call makes no
\* attempt and is rejected with the error of the hook itself; errorHandler
\* neither logs nor wraps it.
C37_HookErrorUnclassified ==
  \A i \in CallIds :
    HookThrows(i) =>
      /\ calls[i].attempts = 0
      /\ calls[i].sent = Empty
      /\ calls[i].pc \in {"idle", "preRequestFilter", "thrown"}
      /\ calls[i].pc = "thrown"
           => /\ calls[i].result = HookError
              /\ calls[i].thrown = 1
              /\ calls[i].log = <<>>

\* preRequestAction of the class throws: the post is rejected after both
\* hooks ran, with nothing sent.
C37_Witness ==
  \E i \in CallIds :
    /\ Has(subclass, "preRequestAction")
    /\ Throws(subclass.preRequestAction)
    /\ calls[i].pc = "thrown"
    /\ calls[i].requestType = "POST"
    /\ calls[i].hooks = <<"preRequestFilter", "preRequestAction">>
    /\ calls[i].result = HookError

(***************************************************************************)
(* C38, C39: what the constructor and a call do to the caller's objects.   *)
(***************************************************************************)
\* The retry policy of a client.
PolicyOf(this) ==
  [k \in {"retries", "backoff", "delayFactor", "retryDelay"} |-> this.retryConfig[k]]

\* C38: constructing a client leaves the caller's options object as it was
\* passed, and every client constructed from that object has the retry
\* policy of the first.
C38_OptionsUnchanged ==
  /\ options = given
  /\ PolicyOf(client) = PolicyOf(constructor(given))

\* C39: a call leaves the config object the caller passed as it was, no key
\* added or replaced, and a call given that object again runs under the
\* policy of a call given a fresh copy of it.
C39_CallConfigUnchanged ==
  \A i \in CallIds :
    calls[i].pc # "idle" =>
      /\ calls[i].argObject = calls[i].arg
      /\ Has(calls[i].arg, "retryConfig") =>
           mergeRetryConfig(client, calls[i].argObject)["axios-retry"]
             = mergeRetryConfig(client, calls[i].arg)["axios-retry"]

====
